---- MODULE Spec2Model ----
(***************************************************************************)
(* Qute: boolean query evaluation over sorted posting lists.               *)
(*                                                                         *)
(* A cursor (qute::Iterator) is modelled as a record                       *)
(*   [kind, sortedDocIds, nextPos, children, tag, childrenHaveTags]        *)
(* kind is "empty", "vec", "and", "or" or "diff".  children is children_   *)
(* of AndIterator / OrIterator; for a DiffIterator children[1] is lhs_ and *)
(* children[2] is rhs_.  tag is tag_ of IteratorWithTag<Base>; "" means    *)
(* the cursor was built without the wrapper (makeIterator, empty tag).     *)
(* C++ indices are 0-based, TLA+ sequences 1-based: children_[i] is        *)
(* children[i + 1] and sortedDocIds_[nextPos_] is sortedDocIds[nextPos+1]. *)
(*                                                                         *)
(* DocId is uint32_t in the source and kInvalidDocId its maximum.  No      *)
(* arithmetic is done on ids, only comparisons, so the id type is scaled   *)
(* to 0 .. MaxDocId + 1 with the sentinel kept as the maximum of the type. *)
(***************************************************************************)
EXTENDS Integers, Sequences, FiniteSets, TLC

\* Largest document id a posting list may hold.
MaxDocId == 2
\* Largest number of children of an AND / OR cursor over arbitrary lists.
MaxChildren == 2
\* How many times next() is called on an exhausted sorted-vector cursor.
MaxOverrun == 2
\* The most tokens of a query given as a list of tokens.
MaxTokens == 5
\* The most and/or operators nested around one term.
MaxDepth == 3

kInvalidDocId == MaxDocId + 1
DocIds == 0 .. MaxDocId
\* Any value of the id type may be passed to skipTo, the sentinel included.
Targets == 0 .. kInvalidDocId

RECURSIVE SortSet(_)
\* The ascending sequence of the elements of a finite set of ids.
SortSet(S) ==
  IF S = {} THEN <<>>
  ELSE LET m == CHOOSE x \in S : \A y \in S : x <= y
       IN <<m>> \o SortSet(S \ {m})

\* Posting lists: every strictly ascending sequence over DocIds.
Lists == {SortSet(S) : S \in SUBSET DocIds}

Range(s) == {s[i] : i \in 1 .. Len(s)}

Swap(s, i, j) == [s EXCEPT ![i] = s[j], ![j] = s[i]]

Min2(a, b) == IF a <= b THEN a ELSE b

----------------------------------------------------------------------------
(* Cursor construction helpers (records).                                  *)

EmptyIterator ==
  [kind |-> "empty", sortedDocIds |-> <<>>, nextPos |-> 0,
   children |-> <<>>, tag |-> "", childrenHaveTags |-> FALSE]

VectorIterator(docs) ==
  [kind |-> "vec", sortedDocIds |-> docs, nextPos |-> 0,
   children |-> <<>>, tag |-> "", childrenHaveTags |-> FALSE]

----------------------------------------------------------------------------
(* valid(), value(), valueUnsafe()                                         *)

RECURSIVE valid(_)
valid(c) ==
  CASE c.kind = "empty" -> FALSE
    [] c.kind = "vec"   -> c.nextPos < Len(c.sortedDocIds)
    [] c.kind = "and"   -> valid(c.children[1])
    [] c.kind = "or"    -> c.children # <<>> /\ valid(c.children[1])
    [] c.kind = "diff"  -> valid(c.children[1])

RECURSIVE value(_)
\* Iterator::value(): valid() ? valueUnsafe() : kInvalidDocId, with the
\* valueUnsafe() of each class inlined.
value(c) ==
  IF ~valid(c) THEN kInvalidDocId
  ELSE IF c.kind = "vec" THEN c.sortedDocIds[c.nextPos + 1]
  ELSE value(c.children[1])

\* Iterator::operator< and the comparator OrIterator::minHeapCmp.
Iterator_less(a, b) == value(a) < value(b)
minHeapCmp(lhs, rhs) == Iterator_less(rhs, lhs)

----------------------------------------------------------------------------
(* Mutating calls return [it, ret, trap]: the cursor after the call, the   *)
(* boolean the call returns, and the set of debug assertions (DCHECKs)     *)
(* whose condition was false during the call.                              *)

Res(it, ret, trap) == [it |-> it, ret |-> ret, trap |-> trap]

\* Mutant of LowerBound: the search of std::upper_bound, which passes over
\* an element equal to the target.
LowerBound_upper(docs, from, target) ==
  LET hits == {i \in from .. Len(docs) - 1 : docs[i + 1] > target}
  IN IF hits = {} THEN Len(docs)
     ELSE CHOOSE i \in hits : \A j \in hits : i <= j

RECURSIVE LowerBoundLoop(_, _, _, _)
\* The loop of std::lower_bound: the range of len elements starting at the
\* 0-based index first is halved until it is empty.
LowerBoundLoop(docs, first, len, target) ==
  IF len <= 0 THEN first
  ELSE LET half == len \div 2
           middle == first + half
       IN IF docs[middle + 1] < target
          THEN LowerBoundLoop(docs, middle + 1, len - half - 1, target)
          ELSE LowerBoundLoop(docs, first, half, target)

\* std::lower_bound(begin + from, end, target) - begin, for from <= size.
\* On an ascending list this is the first 0-based index i >= from with
\* docs[i] >= target, else size; on any other list it is where the halving
\* ends.
LowerBound(docs, from, target) ==
  LowerBoundLoop(docs, from, Len(docs) - from, target)

VectorIterator_next(c) ==
  LET it == [c EXCEPT !.nextPos = @ + 1]
  IN Res(it, valid(it), {})

\* Mutant of VectorIterator_skipTo: the search starts at begin() instead of
\* begin() + nextPos_.
VectorIterator_skipTo_fromBegin(c, target) ==
  LET it == [c EXCEPT !.nextPos = LowerBound(c.sortedDocIds, 0, target)]
  IN Res(it, valid(it), {})

\* DCHECK_LE(nextPos_, size) guards the search.  With nextPos_ > size the
\* range [begin + nextPos_, end) is ill-formed (undefined behaviour); the
\* library loop runs zero times on its negative length and returns its first
\* argument, so nextPos_ is left as it is.  The trap records the violated
\* precondition; the caller decides what the build does with it.
VectorIterator_skipTo(c, target) ==
  IF c.nextPos > Len(c.sortedDocIds)
  THEN Res(c, valid(c), {"VectorIterator::skipTo"})
  ELSE LET it == [c EXCEPT
                    !.nextPos = LowerBound(c.sortedDocIds, c.nextPos, target)]
       IN Res(it, valid(it), {})

\* size() - nextPos_ in size_t.  A size_t of the upper half of its range is
\* written as the negative integer congruent to it modulo 2^64: -1 stands
\* for 2^64 - 1, what the subtraction wraps to with nextPos_ = size() + 1.
VectorIterator_remainingDocs(c) == Len(c.sortedDocIds) - c.nextPos

\* a < b between two size_t written as above.
SizeLess(a, b) == IF (a < 0) = (b < 0) THEN a < b ELSE b < 0

----------------------------------------------------------------------------
(* Heap primitives over a sequence of cursors (0-based positions).         *)

\* Mutant of adjustDownMinHeap: the root is left where it is.
adjustDownMinHeap_stay(heap, pos) == heap

RECURSIVE adjustDownMinHeap(_, _)
\* iterator.cc: sift the cursor at pos down while a child is smaller.
adjustDownMinHeap(heap, pos) ==
  LET first == pos * 2 + 1
      minChild == IF first + 1 < Len(heap) /\
                     minHeapCmp(heap[first + 1], heap[first + 2])
                  THEN first + 1 ELSE first
  IN IF first >= Len(heap) THEN heap
     ELSE IF minHeapCmp(heap[pos + 1], heap[minChild + 1])
          THEN adjustDownMinHeap(Swap(heap, minChild + 1, pos + 1), minChild)
          ELSE heap

RECURSIVE PushHeap(_, _, _, _)
\* libstdc++ std::__push_heap: move the hole up while its parent compares
\* less than value, then store value in the hole.
PushHeap(heap, hole, top, val) ==
  LET parent == (hole - 1) \div 2
  IN IF hole > top /\ minHeapCmp(heap[parent + 1], val)
     THEN PushHeap([heap EXCEPT ![hole + 1] = heap[parent + 1]],
                   parent, top, val)
     ELSE [heap EXCEPT ![hole + 1] = val]

RECURSIVE AdjustHeapDown(_, _, _, _)
\* libstdc++ std::__adjust_heap, first loop: walk the hole down along the
\* larger (by the comparator) child while the hole has two children.
\* Returns the heap and the positions of the hole and of secondChild.
AdjustHeapDown(heap, hole, secondChild, len) ==
  IF secondChild < (len - 1) \div 2
  THEN LET sc0 == 2 * (secondChild + 1)
           sc == IF minHeapCmp(heap[sc0 + 1], heap[sc0]) THEN sc0 - 1 ELSE sc0
       IN AdjustHeapDown([heap EXCEPT ![hole + 1] = heap[sc + 1]], sc, sc, len)
  ELSE [heap |-> heap, hole |-> hole, secondChild |-> secondChild]

\* libstdc++ std::__adjust_heap(first, hole, len, value, comp) on the first
\* len cursors of heap.
AdjustHeap(heap, hole, len, val) ==
  LET \* d: the heap and the positions after the first loop
      Descended(d) ==
        LET lone == len % 2 = 0 /\ d.secondChild = (len - 2) \div 2
            sc == 2 * (d.secondChild + 1)
        IN IF lone
           THEN PushHeap([d.heap EXCEPT ![d.hole + 1] = d.heap[sc]],
                         sc - 1, hole, val)
           ELSE PushHeap(d.heap, d.hole, hole, val)
  IN Descended(AdjustHeapDown(heap, hole, hole, len))

RECURSIVE MakeHeapFrom(_, _)
MakeHeapFrom(heap, parent) ==
  LET Sifted(h2) == IF parent = 0 THEN h2 ELSE MakeHeapFrom(h2, parent - 1)
  IN Sifted(AdjustHeap(heap, parent, Len(heap), heap[parent + 1]))

\* std::make_heap(children_.begin(), children_.end(), minHeapCmp).
MakeHeap(heap) ==
  IF Len(heap) < 2 THEN heap
  ELSE MakeHeapFrom(heap, (Len(heap) - 2) \div 2)

\* Mutant of PopHeapPopBack: the last cursor takes the place of the root
\* and is not sifted down.
PopHeapPopBack_noSift(heap) ==
  LET n == Len(heap)
  IN IF n <= 1 THEN <<>>
     ELSE <<heap[n]>> \o SubSeq(heap, 2, n - 1)

\* std::pop_heap(...) followed by children_.pop_back(): the last cursor is
\* re-inserted from the root over the first size - 1 slots, and the old
\* root, moved to the last slot, is dropped.
PopHeapPopBack(heap) ==
  LET n == Len(heap)
  IN IF n <= 1 THEN <<>>
     ELSE AdjustHeap(SubSeq(heap, 1, n - 1), 0, n - 1, heap[n])

----------------------------------------------------------------------------
(* hasTag()                                                                *)

RECURSIVE hasTag(_)
\* IteratorWithTag::hasTag is unconditionally true; AndIterator and
\* OrIterator answer childrenHaveTags_; DiffIterator asks lhs_ only; the
\* leaves inherit Iterator::hasTag, which is false.
hasTag(c) ==
  IF c.tag # "" THEN TRUE
  ELSE CASE c.kind \in {"and", "or"} -> c.childrenHaveTags
         [] c.kind = "diff"          -> hasTag(c.children[1])
         [] OTHER                    -> FALSE

anyHasTag(children) == \E i \in 1 .. Len(children) : hasTag(children[i])

----------------------------------------------------------------------------
(* next() and skipTo() of every cursor class, with the alignment loops.    *)

RECURSIVE next(_)
RECURSIVE skipTo(_, _)
RECURSIVE AndIterator_nextAgreementLoop(_, _, _)
RECURSIVE DiffIterator_nextAgreementLoop(_, _, _)
RECURSIVE OrIterator_nextLoop(_, _, _)

RECURSIVE AndIterator_nextAgreementLoop_norestart(_, _, _)
\* Mutant of AndIterator_nextAgreementLoop: after a swap the scan goes on
\* with the next slot instead of restarting at slot 1.
AndIterator_nextAgreementLoop_norestart(ch, pos, trap) ==
  IF pos >= Len(ch) \/ ~valid(ch[1])
  THEN [children |-> ch, pos |-> pos, trap |-> trap]
  ELSE LET candidate == value(ch[1])
           Skipped(r) ==
             IF value(r.it) > candidate
             THEN AndIterator_nextAgreementLoop_norestart(
                    Swap([ch EXCEPT ![pos + 1] = r.it], pos + 1, 1),
                    pos + 1, trap \cup r.trap)
             ELSE AndIterator_nextAgreementLoop_norestart(
                    [ch EXCEPT ![pos + 1] = r.it], pos + 1, trap \cup r.trap)
       IN IF value(ch[pos + 1]) < candidate
          THEN Skipped(skipTo(ch[pos + 1], candidate))
          ELSE AndIterator_nextAgreementLoop_norestart(ch, pos + 1, trap)

RECURSIVE AndIterator_nextAgreementLoop_noswap(_, _, _)
\* Mutant of AndIterator_nextAgreementLoop: a child that went past the
\* candidate is left in its slot and the scan goes on.
AndIterator_nextAgreementLoop_noswap(ch, pos, trap) ==
  IF pos >= Len(ch) \/ ~valid(ch[1])
  THEN [children |-> ch, pos |-> pos, trap |-> trap]
  ELSE LET candidate == value(ch[1])
           Skipped(r) ==
             AndIterator_nextAgreementLoop_noswap(
               [ch EXCEPT ![pos + 1] = r.it], pos + 1, trap \cup r.trap)
       IN IF value(ch[pos + 1]) < candidate
          THEN Skipped(skipTo(ch[pos + 1], candidate))
          ELSE AndIterator_nextAgreementLoop_noswap(ch, pos + 1, trap)

\* The nested loops of AndIterator::nextAgreement, entered at the test of
\* the inner for loop with 0-based slot pos.  children_[0] only changes at
\* a swap, which restarts at pos = 1, so testing children_[0]->valid() here
\* is the outer while's test.
AndIterator_nextAgreementLoop(ch, pos, trap) ==
  IF pos >= Len(ch) \/ ~valid(ch[1])
  THEN [children |-> ch, pos |-> pos, trap |-> trap]
  ELSE LET candidate == value(ch[1])
           t1 == IF value(ch[pos + 1]) <= candidate THEN trap
                 ELSE trap \cup {"AndIterator::nextAgreement DCHECK_LE"}
           \* r: what children_[pos]->skipTo(candidate) returned
           Skipped(r) ==
             LET ch2 == [ch EXCEPT ![pos + 1] = r.it]
                 t2 == t1 \cup r.trap \cup
                       (IF value(r.it) >= candidate THEN {}
                        ELSE {"AndIterator::nextAgreement DCHECK_GE"})
             IN IF value(r.it) > candidate
                THEN AndIterator_nextAgreementLoop(Swap(ch2, pos + 1, 1), 1, t2)
                ELSE AndIterator_nextAgreementLoop(ch2, pos + 1, t2)
       IN IF value(ch[pos + 1]) < candidate
          THEN Skipped(skipTo(ch[pos + 1], candidate))
          ELSE AndIterator_nextAgreementLoop(ch, pos + 1, t1)

\* Mutant of AndIterator_nextAgreement: the alignment always reports
\* success.
AndIterator_nextAgreement_true(c, trap) ==
  LET Aligned(l) == Res([c EXCEPT !.children = l.children], TRUE, l.trap)
  IN Aligned(AndIterator_nextAgreementLoop(c.children, 1, trap))

AndIterator_nextAgreement(c, trap) ==
  LET Aligned(l) ==
        Res([c EXCEPT !.children = l.children], l.pos = Len(c.children), l.trap)
  IN Aligned(AndIterator_nextAgreementLoop(c.children, 1, trap))

AndIterator_next(c) ==
  IF ~valid(c) THEN Res(c, FALSE, {})
  ELSE LET Advanced(r) ==
             IF valid(r.it)
             THEN AndIterator_nextAgreement([c EXCEPT !.children[1] = r.it], r.trap)
             ELSE Res([c EXCEPT !.children[1] = r.it], FALSE, r.trap)
       IN Advanced(next(c.children[1]))

AndIterator_skipTo(c, target) ==
  IF ~valid(c) THEN Res(c, FALSE, {})
  ELSE LET Skipped(r) ==
             IF ~r.ret THEN Res([c EXCEPT !.children[1] = r.it], FALSE, r.trap)
             ELSE AndIterator_nextAgreement([c EXCEPT !.children[1] = r.it], r.trap)
       IN Skipped(skipTo(c.children[1], target))

\* Mutant of DiffIterator_nextAgreementLoop: the left value is accepted as
\* soon as the right child is valid, without comparing the two values.
DiffIterator_nextAgreementLoop_nocmp(lhs, rhs, trap) ==
  IF ~valid(lhs)
  THEN [lhs |-> lhs, rhs |-> rhs, ret |-> FALSE, trap |-> trap]
  ELSE LET Skipped(s) ==
             [lhs |-> lhs, rhs |-> s.it, ret |-> TRUE, trap |-> trap \cup s.trap]
       IN Skipped(skipTo(rhs, value(lhs)))

\* The loop of DiffIterator::nextAgreement, entered at its while test.
DiffIterator_nextAgreementLoop(lhs, rhs, trap) ==
  IF ~valid(lhs)
  THEN [lhs |-> lhs, rhs |-> rhs, ret |-> FALSE, trap |-> trap]
  ELSE LET \* n: what lhs_->next() returned
           Advanced(s, n) ==
             DiffIterator_nextAgreementLoop(n.it, s.it,
                                            trap \cup s.trap \cup n.trap)
           \* s: what rhs_->skipTo(lhs_->value()) returned
           Skipped(s) ==
             IF ~s.ret \/ value(s.it) > value(lhs)
             THEN [lhs |-> lhs, rhs |-> s.it, ret |-> TRUE,
                   trap |-> trap \cup s.trap]
             ELSE Advanced(s, next(lhs))
       IN Skipped(skipTo(rhs, value(lhs)))

DiffIterator_nextAgreement(c, trap) ==
  LET Aligned(l) == Res([c EXCEPT !.children = <<l.lhs, l.rhs>>], l.ret, l.trap)
  IN Aligned(DiffIterator_nextAgreementLoop(c.children[1], c.children[2], trap))

DiffIterator_next(c) ==
  IF ~valid(c) THEN Res(c, FALSE, {})
  ELSE LET Advanced(r) ==
             IF ~r.ret THEN Res([c EXCEPT !.children[1] = r.it], FALSE, r.trap)
             ELSE DiffIterator_nextAgreement([c EXCEPT !.children[1] = r.it], r.trap)
       IN Advanced(next(c.children[1]))

DiffIterator_skipTo(c, target) ==
  LET Skipped(r) ==
        IF ~r.ret THEN Res([c EXCEPT !.children[1] = r.it], FALSE, r.trap)
        ELSE DiffIterator_nextAgreement([c EXCEPT !.children[1] = r.it], r.trap)
  IN Skipped(skipTo(c.children[1], target))

\* Mutant of OrIterator_nextLoop: only the root child is advanced, the other
\* children standing on the same id are left where they are.
OrIterator_nextLoop_once(ch, current, trap) ==
  LET Advanced(r) ==
        IF valid(r.it)
        THEN [children |-> adjustDownMinHeap([ch EXCEPT ![1] = r.it], 0),
              trap |-> trap \cup r.trap]
        ELSE [children |-> PopHeapPopBack([ch EXCEPT ![1] = r.it]),
              trap |-> trap \cup r.trap]
  IN Advanced(next(ch[1]))

\* The while loop of OrIterator::next.
OrIterator_nextLoop(ch, current, trap) ==
  IF ch # <<>> /\ value(ch[1]) = current
  THEN LET \* r: what children_[0]->next() returned
           Advanced(r) ==
             IF valid(r.it)
             THEN OrIterator_nextLoop(
                    adjustDownMinHeap([ch EXCEPT ![1] = r.it], 0),
                    current, trap \cup r.trap)
             ELSE OrIterator_nextLoop(
                    PopHeapPopBack([ch EXCEPT ![1] = r.it]),
                    current, trap \cup r.trap)
       IN Advanced(next(ch[1]))
  ELSE [children |-> ch, trap |-> trap]

OrIterator_next(c) ==
  IF ~valid(c) THEN Res(c, FALSE, {})
  ELSE LET current == value(c)
           Popped(l) ==
             LET it == [c EXCEPT !.children = l.children]
                 post == l.children = <<>> \/ value(l.children[1]) > current
             IN Res(it, valid(it),
                    l.trap \cup (IF post THEN {} ELSE {"OrIterator::next DCHECK"}))
       IN Popped(OrIterator_nextLoop(c.children, current, {}))

RECURSIVE OrIterator_compact(_)
\* The second loop of OrIterator::skipTo with children_.resize(next): the
\* valid children, in their stored order.
OrIterator_compact(ch) ==
  IF ch = <<>> THEN <<>>
  ELSE IF valid(Head(ch)) THEN <<Head(ch)>> \o OrIterator_compact(Tail(ch))
       ELSE OrIterator_compact(Tail(ch))

\* Mutant of OrIterator_skipTo: only the root child is asked to skip.
OrIterator_skipTo_rootOnly(c, target) ==
  IF c.children = <<>> THEN Res(c, FALSE, {})
  ELSE LET Rebuilt(h, trap) == Res([c EXCEPT !.children = h],
                                    valid([c EXCEPT !.children = h]), trap)
           Skipped(r) ==
             Rebuilt(MakeHeap(OrIterator_compact([c.children EXCEPT ![1] = r.it])),
                     r.trap)
       IN Skipped(skipTo(c.children[1], target))

OrIterator_skipTo(c, target) ==
  LET \* h: children_ after the compaction and std::make_heap
      Rebuilt(h, trap) == Res([c EXCEPT !.children = h],
                              valid([c EXCEPT !.children = h]), trap)
      \* rs: what child->skipTo(target) returned, for every child
      Skipped(rs) ==
        Rebuilt(MakeHeap(OrIterator_compact(
                  [i \in 1 .. Len(c.children) |-> rs[i].it])),
                UNION {rs[i].trap : i \in 1 .. Len(c.children)})
  IN Skipped([i \in 1 .. Len(c.children) |-> skipTo(c.children[i], target)])

next(c) ==
  CASE c.kind = "empty" -> Res(c, FALSE, {})
    [] c.kind = "vec"   -> VectorIterator_next(c)
    [] c.kind = "and"   -> AndIterator_next(c)
    [] c.kind = "or"    -> OrIterator_next(c)
    [] c.kind = "diff"  -> DiffIterator_next(c)

skipTo(c, target) ==
  CASE c.kind = "empty" -> Res(c, FALSE, {})
    [] c.kind = "vec"   -> VectorIterator_skipTo(c, target)
    [] c.kind = "and"   -> AndIterator_skipTo(c, target)
    [] c.kind = "or"    -> OrIterator_skipTo(c, target)
    [] c.kind = "diff"  -> DiffIterator_skipTo(c, target)

----------------------------------------------------------------------------
(* Constructors and makeIterator.                                          *)

\* std::max_element with Iterator::operator<: the 1-based slot of the first
\* child whose value no other child exceeds.
MaxElement(ch) ==
  CHOOSE i \in 1 .. Len(ch) :
    /\ \A j \in 1 .. Len(ch) : ~Iterator_less(ch[i], ch[j])
    /\ \A j \in 1 .. i - 1 : Iterator_less(ch[j], ch[i])

\* AndIterator::AndIterator, built through makeIterator(tag, children).
\* CHECK(!children_.empty()) aborts the process on an empty child list.
AndIterator(tag, children) ==
  IF children = <<>>
  THEN Res(EmptyIterator, FALSE, {"AndIterator CHECK"})
  ELSE AndIterator_nextAgreement(
         [kind |-> "and", sortedDocIds |-> <<>>, nextPos |-> 0,
          children |-> Swap(children, 1, MaxElement(children)),
          tag |-> tag, childrenHaveTags |-> anyHasTag(children)], {})

\* OrIterator::OrIterator, built through makeIterator(tag, children).
OrIterator(tag, children) ==
  IF children = <<>>
  THEN Res(EmptyIterator, FALSE, {"OrIterator CHECK"})
  ELSE Res([kind |-> "or", sortedDocIds |-> <<>>, nextPos |-> 0,
            children |-> MakeHeap(children),
            tag |-> tag, childrenHaveTags |-> anyHasTag(children)],
           TRUE, {})

\* DiffIterator::DiffIterator, built through makeIterator(tag, lhs, rhs).
DiffIterator(tag, lhs, rhs) ==
  DiffIterator_nextAgreement(
    [kind |-> "diff", sortedDocIds |-> <<>>, nextPos |-> 0,
     children |-> <<lhs, rhs>>, tag |-> tag, childrenHaveTags |-> FALSE], {})

----------------------------------------------------------------------------
(* getTags(): [tags, trap], trap being the assertions that fail (CHECK and *)
(* DCHECK) and the undefined reads met while collecting.                   *)

TagRes(tags, trap) == [tags |-> tags, trap |-> trap]

RECURSIVE getTags(_)
RECURSIVE AndIterator_getTagsLoop(_, _)
RECURSIVE OrIterator_getTagsAt(_, _, _)
RECURSIVE OrIterator_getTagsAt_all(_, _, _)

\* The loop of AndIterator::getTags: every child's tags, in stored order.
AndIterator_getTagsLoop(ch, i) ==
  IF i > Len(ch) THEN TagRes(<<>>, {})
  ELSE LET Joined(h, t) == TagRes(h.tags \o t.tags, h.trap \cup t.trap)
       IN Joined(getTags(ch[i]), AndIterator_getTagsLoop(ch, i + 1))

\* Mutant of OrIterator_getTagsAt: the walk stops at the slot it starts
\* from.
OrIterator_getTagsAt_top(ch, heapPos, currentValue) ==
  IF heapPos >= Len(ch) \/ currentValue # value(ch[heapPos + 1])
  THEN TagRes(<<>>, {})
  ELSE getTags(ch[heapPos + 1])

\* Mutant of OrIterator_getTagsAt: the walk is not cut at a slot standing on
\* another value.
OrIterator_getTagsAt_all(ch, heapPos, currentValue) ==
  IF heapPos >= Len(ch)
  THEN TagRes(<<>>, {})
  ELSE LET Joined(h, l, r) ==
             TagRes(h.tags \o l.tags \o r.tags, h.trap \cup l.trap \cup r.trap)
       IN Joined(getTags(ch[heapPos + 1]),
                 OrIterator_getTagsAt_all(ch, heapPos * 2 + 1, currentValue),
                 OrIterator_getTagsAt_all(ch, heapPos * 2 + 2, currentValue))

\* OrIterator::getTags(heapPos, currentValue, tags): pre-order walk of the
\* heap below heapPos, cut at a slot whose value differs from currentValue.
OrIterator_getTagsAt(ch, heapPos, currentValue) ==
  IF heapPos >= Len(ch) \/ currentValue # value(ch[heapPos + 1])
  THEN TagRes(<<>>, {})
  ELSE LET Joined(h, l, r) ==
             TagRes(h.tags \o l.tags \o r.tags, h.trap \cup l.trap \cup r.trap)
       IN Joined(getTags(ch[heapPos + 1]),
                 OrIterator_getTagsAt(ch, heapPos * 2 + 1, currentValue),
                 OrIterator_getTagsAt(ch, heapPos * 2 + 2, currentValue))

\* Mutant of Base_getTags: a DIFF collects the tags of its right side after
\* those of its left side.
Base_getTags_bothSides(c) ==
  CASE c.kind = "and" ->
         LET pre == IF valid(c) THEN {} ELSE {"AndIterator::getTags DCHECK"}
             Collected(t) == TagRes(t.tags, pre \cup t.trap)
         IN IF ~c.childrenHaveTags THEN TagRes(<<>>, pre)
            ELSE Collected(AndIterator_getTagsLoop(c.children, 1))
    [] c.kind = "or" ->
         LET pre == IF valid(c) THEN {} ELSE {"OrIterator::getTags DCHECK"}
         IN IF ~c.childrenHaveTags THEN TagRes(<<>>, pre)
            ELSE IF c.children = <<>>
                 THEN TagRes(<<>>, pre \cup {"OrIterator::valueUnsafe UB"})
                 ELSE LET Collected(t) == TagRes(t.tags, pre \cup t.trap)
                      IN Collected(OrIterator_getTagsAt(c.children, 0,
                                                        value(c.children[1])))
    [] c.kind = "diff" ->
         IF valid(c)
         THEN LET Both(l, r) == TagRes(l.tags \o r.tags, l.trap)
              IN Both(getTags(c.children[1]), getTags(c.children[2]))
         ELSE TagRes(<<>>, {"DiffIterator::getTags CHECK"})
    [] OTHER -> TagRes(<<>>, {})

\* getTags of the class below the IteratorWithTag wrapper.
Base_getTags(c) ==
  CASE c.kind = "and" ->
         LET pre == IF valid(c) THEN {} ELSE {"AndIterator::getTags DCHECK"}
             Collected(t) == TagRes(t.tags, pre \cup t.trap)
         IN IF ~c.childrenHaveTags THEN TagRes(<<>>, pre)
            ELSE Collected(AndIterator_getTagsLoop(c.children, 1))
    [] c.kind = "or" ->
         LET pre == IF valid(c) THEN {} ELSE {"OrIterator::getTags DCHECK"}
         IN IF ~c.childrenHaveTags THEN TagRes(<<>>, pre)
            ELSE IF c.children = <<>>
                 \* valueUnsafe() reads children_[0] of an empty vector.
                 THEN TagRes(<<>>, pre \cup {"OrIterator::valueUnsafe UB"})
                 ELSE LET Collected(t) == TagRes(t.tags, pre \cup t.trap)
                      IN Collected(OrIterator_getTagsAt(c.children, 0,
                                                        value(c.children[1])))
    [] c.kind = "diff" ->
         IF valid(c) THEN getTags(c.children[1])
         ELSE TagRes(<<>>, {"DiffIterator::getTags CHECK"})
    [] OTHER -> TagRes(<<>>, {})

\* Mutant of getTags: a cursor that is not valid reports no tags, whatever
\* its class.
getTags_validOnly(c) ==
  IF ~valid(c) THEN TagRes(<<>>, {})
  ELSE IF c.tag = "" THEN Base_getTags(c)
  ELSE IF hasTag([c EXCEPT !.tag = ""])
       THEN LET Tagged(t) == TagRes(Append(t.tags, c.tag), t.trap)
            IN Tagged(Base_getTags(c))
       ELSE TagRes(<<c.tag>>, {})

\* Mutant of getTags: the wrapper puts its own tag before the tags of the
\* wrapped cursor.
getTags_tagFirst(c) ==
  IF c.tag = "" THEN Base_getTags(c)
  ELSE IF hasTag([c EXCEPT !.tag = ""])
       THEN LET Tagged(t) == TagRes(<<c.tag>> \o t.tags, t.trap)
            IN Tagged(Base_getTags(c))
       ELSE TagRes(<<c.tag>>, {})

\* Virtual getTags(): IteratorWithTag<Base>::getTags when the cursor was
\* built with a tag, Base::getTags otherwise.
getTags(c) ==
  IF c.tag = "" THEN Base_getTags(c)
  ELSE IF hasTag([c EXCEPT !.tag = ""])
       THEN LET Tagged(t) == TagRes(Append(t.tags, c.tag), t.trap)
            IN Tagged(Base_getTags(c))
       ELSE TagRes(<<c.tag>>, {})

----------------------------------------------------------------------------
(* remainingDocs() and iterateWith().                                      *)

RECURSIVE remainingDocs(_)
RECURSIVE remainingDocsLoop(_, _, _, _)

RECURSIVE remainingDocsLoop_sum(_, _, _, _)
\* Mutant of remainingDocsLoop: the OR adds the estimates of its children
\* up.
remainingDocsLoop_sum(ch, i, acc, least) ==
  IF i > Len(ch) THEN acc
  ELSE LET Pick(r) == IF least THEN (IF SizeLess(r, acc) THEN r ELSE acc)
                       ELSE (IF i = 1 THEN r ELSE acc + r)
       IN remainingDocsLoop_sum(ch, i + 1, Pick(remainingDocs(ch[i])), least)

\* The loops of AndIterator::remainingDocs (least = TRUE, std::min) and of
\* OrIterator::remainingDocs (least = FALSE, std::max).
remainingDocsLoop(ch, i, acc, least) ==
  IF i > Len(ch) THEN acc
  ELSE LET Pick(r) == IF least THEN (IF SizeLess(r, acc) THEN r ELSE acc)
                       ELSE (IF SizeLess(acc, r) THEN r ELSE acc)
       IN remainingDocsLoop(ch, i + 1, Pick(remainingDocs(ch[i])), least)

remainingDocs(c) ==
  CASE c.kind = "empty" -> 0
    [] c.kind = "vec"   -> VectorIterator_remainingDocs(c)
    [] c.kind \in {"and", "or"} ->
         IF ~valid(c) THEN 0
         ELSE remainingDocsLoop(c.children, 1, remainingDocs(c.children[1]),
                            c.kind = "and")
    [] c.kind = "diff" ->
         LET Minus(l, r) == IF SizeLess(r, l) THEN l - r ELSE 0
         IN Minus(remainingDocs(c.children[1]), remainingDocs(c.children[2]))

RECURSIVE iterateWithLoop(_, _, _)
iterateWithLoop(c, out, trap) ==
  IF ~valid(c) THEN [it |-> c, out |-> out, trap |-> trap]
  ELSE LET Advanced(r) ==
             iterateWithLoop(r.it, Append(out, value(c)), trap \cup r.trap)
       IN Advanced(next(c))

\* Mutant of iterateWith: an if in place of the while.
iterateWith_once(c) ==
  IF ~valid(c) THEN [it |-> c, out |-> <<>>, trap |-> {}]
  ELSE LET Advanced(r) == [it |-> r.it, out |-> <<value(c)>>, trap |-> r.trap]
       IN Advanced(next(c))

\* Iterator::iterateWith with a callback that appends each value to out.
iterateWith(c) == iterateWithLoop(c, <<>>, {})

----------------------------------------------------------------------------
(* Query expressions: what the caller builds, by hand with makeIterator or *)
(* through the parser.  [op, tag, args, docs].                             *)

Term(docs) == [op |-> "vec", tag |-> "", args |-> <<>>, docs |-> docs]
EmptyTerm == [op |-> "empty", tag |-> "", args |-> <<>>, docs |-> <<>>]
Op(op, tag, args) == [op |-> op, tag |-> tag, args |-> args, docs |-> <<>>]

RECURSIVE Build(_)
RECURSIVE BuildAll(_, _)

\* The children are built first, left to right, as the arguments of
\* toVector / of the constructor call are.
BuildAll(args, i) ==
  IF i > Len(args) THEN [its |-> <<>>, trap |-> {}]
  ELSE LET Joined(h, t) ==
             [its |-> <<h.it>> \o t.its, trap |-> h.trap \cup t.trap]
       IN Joined(Build(args[i]), BuildAll(args, i + 1))

\* makeIterator<Itr>(tag, children...) over the built children;
\* Iterator::getVectorIterator and Iterator::getEmptyIterator at the leaves.
Build(e) ==
  CASE e.op = "vec"   -> Res(VectorIterator(e.docs), TRUE, {})
    [] e.op = "empty" -> Res(EmptyIterator, TRUE, {})
    [] OTHER ->
         LET Made(b, r) == Res(r.it, TRUE, b.trap \cup r.trap)
             Children(b) ==
               Made(b, CASE e.op = "and"  -> AndIterator(e.tag, b.its)
                         [] e.op = "or"   -> OrIterator(e.tag, b.its)
                         [] e.op = "diff" -> DiffIterator(e.tag, b.its[1], b.its[2]))
         IN Children(BuildAll(e.args, 1))

RECURSIVE Eval(_)
RECURSIVE EvalAll(_, _, _)
\* Reference semantics: the set a query expression denotes.
EvalAll(args, i, isAnd) ==
  IF i > Len(args) THEN (IF isAnd THEN DocIds ELSE {})
  ELSE IF isAnd THEN Eval(args[i]) \cap EvalAll(args, i + 1, isAnd)
       ELSE Eval(args[i]) \cup EvalAll(args, i + 1, isAnd)

Eval(e) ==
  CASE e.op = "vec"   -> Range(e.docs)
    [] e.op = "empty" -> {}
    [] e.op = "and"   -> EvalAll(e.args, 1, TRUE)
    [] e.op = "or"    -> EvalAll(e.args, 1, FALSE)
    [] e.op = "diff"  -> Eval(e.args[1]) \ Eval(e.args[2])

----------------------------------------------------------------------------
(* QueryParser.  A query is a sequence of characters (strings of length    *)
(* one); a position is a 0-based offset into it.                           *)

kTagPrefix == <<"t", "a", "g", ":">>
kContextLength == 23

\* The vertical tab (character code 11), which has no escape in a string,
\* is written as the character itself.
kVerticalTab == ""
\* isspace of <cctype> in the "C" locale.
isspace(c) == c \in {" ", "\t", "\n", kVerticalTab, "\f", "\r"}
isParenthesis(c) == c \in {"(", ")"}

RECURSIVE Str(_)
\* std::string(token): the characters as one string.
Str(cs) == IF cs = <<>> THEN "" ELSE Head(cs) \o Str(Tail(cs))

RECURSIVE skipSpaces(_, _)
\* split's skipSpaces: the offset of the first character at or after i that
\* is not a space, Len(q) when there is none.
skipSpaces(q, i) ==
  IF i < Len(q) /\ isspace(q[i + 1]) THEN skipSpaces(q, i + 1) ELSE i

RECURSIVE tokenEnd(_, _)
\* The while loop of split's getToken: the offset after the run of
\* characters that are neither spaces nor parentheses.
tokenEnd(q, e) ==
  IF e < Len(q) /\ ~isspace(q[e + 1]) /\ ~isParenthesis(q[e + 1])
  THEN tokenEnd(q, e + 1) ELSE e

\* split's getToken at offset i, where q[i] is not a space: a parenthesis
\* alone, or a maximal run.  A token is a view: its text and where it starts.
getToken(q, i) ==
  IF isParenthesis(q[i + 1]) THEN [text |-> <<q[i + 1]>>, pos |-> i]
  ELSE [text |-> SubSeq(q, i + 1, tokenEnd(q, i)), pos |-> i]

RECURSIVE splitFrom(_, _, _)
\* The while loop of split, with the rest of the query starting at offset i.
splitFrom(q, i, tokens) ==
  LET Got(t) == splitFrom(q, t.pos + Len(t.text), Append(tokens, t))
      Skipped(b) == IF b >= Len(q) THEN tokens ELSE Got(getToken(q, b))
  IN Skipped(skipSpaces(q, i))

split(q) == splitFrom(q, 0, <<>>)

escapeStr(sv) ==
  [i \in 1 .. Len(sv) |-> IF sv[i] \in {"\n", "\t"} THEN " " ELSE sv[i]]

\* std::string_view::substr(pos, n), for pos <= size.
substr(sv, pos, n) == SubSeq(sv, pos + 1, Min2(pos + n, Len(sv)))

\* No exception.
NoError == [what |-> "", pos |-> 0, msg |-> ""]

\* The exception logAndThrow throws: what() as it formats it, with the
\* position and the message it was called with.
logAndThrow(pos, msg, qsv) ==
  [what |-> "Invalid query: " \o msg \o " At position (0-based) "
            \o ToString(pos) \o " with query text \""
            \o Str(escapeStr(substr(qsv, pos, kContextLength)))
            \o "\" and preceding query text \""
            \o Str(escapeStr(substr(
                 qsv,
                 IF pos > kContextLength THEN pos - kContextLength ELSE 0,
                 Min2(pos, kContextLength))))
            \o "\".",
   pos |-> pos, msg |-> msg]

\* What getIterator and close hand back: the cursor, or the exception
\* thrown, with the assertions that failed on the way.
ParseRes(it, error, trap) == [it |-> it, error |-> error, trap |-> trap]

PartialState(startPos, op) ==
  [startPos |-> startPos, op |-> op, itrs |-> <<>>, tag |-> ""]

\* The index behind the term factory: one term for every posting list,
\* named "t" followed by the ids of the list.
TermName(docs) == <<"t">> \o [i \in 1 .. Len(docs) |-> ToString(docs[i])]
invertedIndex ==
  [term \in {TermName(l) : l \in Lists} |->
     CHOOSE l \in Lists : TermName(l) = term]

\* SimpleIteratorFactory::getIteratorForTerm
getIteratorForTerm(term) ==
  IF term \in DOMAIN invertedIndex
  THEN VectorIterator(invertedIndex[term])
  ELSE EmptyIterator

\* Mutant of PartialState_close: diff takes its first two sub-expressions
\* and accepts more.
PartialState_close_atLeastTwo(state, endPos, qsv, trap) ==
  LET Made(r) == ParseRes(r.it, NoError, trap \cup r.trap)
      Throw(msg) == ParseRes(EmptyIterator, logAndThrow(endPos, msg, qsv), trap)
  IN IF state.itrs = <<>>
     THEN Throw("An operator doesn't have any sub-expression.")
     ELSE CASE state.op = "DIFF" ->
                 IF Len(state.itrs) < 2
                 THEN Throw("The diff operator requires exactly 2 "
                            \o "sub-expressions. Instead, "
                            \o ToString(Len(state.itrs))
                            \o " ones are provided.")
                 ELSE Made(DiffIterator(state.tag, state.itrs[1], state.itrs[2]))
            [] state.op = "AND" ->
                 IF Len(state.itrs) = 1 /\ state.tag = ""
                 THEN ParseRes(state.itrs[1], NoError, trap)
                 ELSE Made(AndIterator(state.tag, state.itrs))
            [] state.op = "OR" ->
                 IF Len(state.itrs) = 1 /\ state.tag = ""
                 THEN ParseRes(state.itrs[1], NoError, trap)
                 ELSE Made(OrIterator(state.tag, state.itrs))
            [] state.op = "ROOT" ->
                 IF Len(state.itrs) # 1
                 THEN Throw("There are multiple queries.")
                 ELSE IF state.tag # ""
                      THEN Throw("The top level has a tag.")
                      ELSE ParseRes(state.itrs[1], NoError, trap)

\* Mutant of PartialState_close: an and or an or of one sub-expression is
\* built as any other.
PartialState_close_noCollapse(state, endPos, qsv, trap) ==
  LET Made(r) == ParseRes(r.it, NoError, trap \cup r.trap)
      Throw(msg) == ParseRes(EmptyIterator, logAndThrow(endPos, msg, qsv), trap)
  IN IF state.itrs = <<>>
     THEN Throw("An operator doesn't have any sub-expression.")
     ELSE CASE state.op = "DIFF" ->
                 IF Len(state.itrs) # 2
                 THEN Throw("The diff operator requires exactly 2 "
                            \o "sub-expressions. Instead, "
                            \o ToString(Len(state.itrs))
                            \o " ones are provided.")
                 ELSE Made(DiffIterator(state.tag, state.itrs[1], state.itrs[2]))
            [] state.op = "AND" -> Made(AndIterator(state.tag, state.itrs))
            [] state.op = "OR" -> Made(OrIterator(state.tag, state.itrs))
            [] state.op = "ROOT" ->
                 IF Len(state.itrs) # 1
                 THEN Throw("There are multiple queries.")
                 ELSE IF state.tag # ""
                      THEN Throw("The top level has a tag.")
                      ELSE ParseRes(state.itrs[1], NoError, trap)

\* Mutant of PartialState_close: the outermost level hands back its first
\* expression, however many it holds.
PartialState_close_firstOfRoot(state, endPos, qsv, trap) ==
  LET Made(r) == ParseRes(r.it, NoError, trap \cup r.trap)
      Throw(msg) == ParseRes(EmptyIterator, logAndThrow(endPos, msg, qsv), trap)
  IN IF state.itrs = <<>>
     THEN Throw("An operator doesn't have any sub-expression.")
     ELSE CASE state.op = "DIFF" ->
                 IF Len(state.itrs) # 2
                 THEN Throw("The diff operator requires exactly 2 "
                            \o "sub-expressions. Instead, "
                            \o ToString(Len(state.itrs))
                            \o " ones are provided.")
                 ELSE Made(DiffIterator(state.tag, state.itrs[1], state.itrs[2]))
            [] state.op = "AND" ->
                 IF Len(state.itrs) = 1 /\ state.tag = ""
                 THEN ParseRes(state.itrs[1], NoError, trap)
                 ELSE Made(AndIterator(state.tag, state.itrs))
            [] state.op = "OR" ->
                 IF Len(state.itrs) = 1 /\ state.tag = ""
                 THEN ParseRes(state.itrs[1], NoError, trap)
                 ELSE Made(OrIterator(state.tag, state.itrs))
            [] state.op = "ROOT" ->
                 IF state.tag # ""
                 THEN Throw("The top level has a tag.")
                 ELSE ParseRes(state.itrs[1], NoError, trap)

\* Mutant of PartialState_close: the operands of diff are passed in the
\* opposite order.
PartialState_close_swapped(state, endPos, qsv, trap) ==
  LET Made(r) == ParseRes(r.it, NoError, trap \cup r.trap)
      Throw(msg) == ParseRes(EmptyIterator, logAndThrow(endPos, msg, qsv), trap)
  IN IF state.itrs = <<>>
     THEN Throw("An operator doesn't have any sub-expression.")
     ELSE CASE state.op = "DIFF" ->
                 IF Len(state.itrs) # 2
                 THEN Throw("The diff operator requires exactly 2 "
                            \o "sub-expressions. Instead, "
                            \o ToString(Len(state.itrs))
                            \o " ones are provided.")
                 ELSE Made(DiffIterator(state.tag, state.itrs[2], state.itrs[1]))
            [] state.op = "AND" ->
                 IF Len(state.itrs) = 1 /\ state.tag = ""
                 THEN ParseRes(state.itrs[1], NoError, trap)
                 ELSE Made(AndIterator(state.tag, state.itrs))
            [] state.op = "OR" ->
                 IF Len(state.itrs) = 1 /\ state.tag = ""
                 THEN ParseRes(state.itrs[1], NoError, trap)
                 ELSE Made(OrIterator(state.tag, state.itrs))
            [] state.op = "ROOT" ->
                 IF Len(state.itrs) # 1
                 THEN Throw("There are multiple queries.")
                 ELSE IF state.tag # ""
                      THEN Throw("The top level has a tag.")
                      ELSE ParseRes(state.itrs[1], NoError, trap)

\* PartialState::close(endToken, qsv), endPos being the offset of endToken.
PartialState_close(state, endPos, qsv, trap) ==
  LET Made(r) == ParseRes(r.it, NoError, trap \cup r.trap)
      Throw(msg) == ParseRes(EmptyIterator, logAndThrow(endPos, msg, qsv), trap)
  IN IF state.itrs = <<>>
     THEN Throw("An operator doesn't have any sub-expression.")
     ELSE CASE state.op = "DIFF" ->
                 IF Len(state.itrs) # 2
                 THEN Throw("The diff operator requires exactly 2 "
                            \o "sub-expressions. Instead, "
                            \o ToString(Len(state.itrs))
                            \o " ones are provided.")
                 ELSE Made(DiffIterator(state.tag, state.itrs[1], state.itrs[2]))
            [] state.op = "AND" ->
                 IF Len(state.itrs) = 1 /\ state.tag = ""
                 THEN ParseRes(state.itrs[1], NoError, trap)
                 ELSE Made(AndIterator(state.tag, state.itrs))
            [] state.op = "OR" ->
                 IF Len(state.itrs) = 1 /\ state.tag = ""
                 THEN ParseRes(state.itrs[1], NoError, trap)
                 ELSE Made(OrIterator(state.tag, state.itrs))
            [] state.op = "ROOT" ->
                 IF Len(state.itrs) # 1
                 THEN Throw("There are multiple queries.")
                 ELSE IF state.tag # ""
                      THEN Throw("The top level has a tag.")
                      ELSE ParseRes(state.itrs[1], NoError, trap)

kStrToOpMap ==
  (<<"a", "n", "d">> :> "AND") @@ (<<"o", "r">> :> "OR")
    @@ (<<"d", "i", "f", "f">> :> "DIFF")

\* Mutant of expectNextOperator: a word that is no operator opens an and.
expectNextOperator_anyWord(tokens, nextTokenIdx, qsv) ==
  LET startPos == tokens[nextTokenIdx].pos
      Throw(msg) == [state |-> PartialState(startPos, "ROOT"),
                     error |-> logAndThrow(startPos, msg, qsv)]
  IN IF nextTokenIdx = Len(tokens)
     THEN Throw("Expecting an operator after a left parenthesis '('.")
     ELSE IF tokens[nextTokenIdx + 1].text \notin DOMAIN kStrToOpMap
          THEN [state |-> PartialState(startPos, "AND"), error |-> NoError]
          ELSE [state |-> PartialState(startPos,
                                       kStrToOpMap[tokens[nextTokenIdx + 1].text]),
                error |-> NoError]

\* Mutant of expectNextOperator: a word that is no operator throws nothing,
\* and the state is returned with the kind it was constructed with.
expectNextOperator_noThrow(tokens, nextTokenIdx, qsv) ==
  LET startPos == tokens[nextTokenIdx].pos
      Throw(msg) == [state |-> PartialState(startPos, "ROOT"),
                     error |-> logAndThrow(startPos, msg, qsv)]
  IN IF nextTokenIdx = Len(tokens)
     THEN Throw("Expecting an operator after a left parenthesis '('.")
     ELSE IF tokens[nextTokenIdx + 1].text \notin DOMAIN kStrToOpMap
          THEN [state |-> PartialState(startPos, "ROOT"), error |-> NoError]
          ELSE [state |-> PartialState(startPos,
                                       kStrToOpMap[tokens[nextTokenIdx + 1].text]),
                error |-> NoError]

\* The lambda expectNextOperator of getIterator; nextTokenIdx is 0-based and
\* at least 1.  Returns the state to push, or the exception thrown.
expectNextOperator(tokens, nextTokenIdx, qsv) ==
  LET startPos == tokens[nextTokenIdx].pos
      Throw(msg) == [state |-> PartialState(startPos, "ROOT"),
                     error |-> logAndThrow(startPos, msg, qsv)]
  IN IF nextTokenIdx = Len(tokens)
     THEN Throw("Expecting an operator after a left parenthesis '('.")
     ELSE IF tokens[nextTokenIdx + 1].text \notin DOMAIN kStrToOpMap
          THEN Throw("Unrecognizable operator after a left parenthesis '(': "
                     \o Str(tokens[nextTokenIdx + 1].text))
          ELSE [state |-> PartialState(startPos,
                                       kStrToOpMap[tokens[nextTokenIdx + 1].text]),
                error |-> NoError]

starts_with(text, prefix) ==
  Len(text) >= Len(prefix) /\ SubSeq(text, 1, Len(prefix)) = prefix

RECURSIVE getIteratorLoop(_, _, _, _, _)

\* Mutant of getIteratorLoop: a tag token is stored in whatever frame is on
\* top of the stack, the outermost one included.
getIteratorLoop_rootTag(qsv, tokens, tokenIdx, stack, trap) ==
  LET top == stack[Len(stack)]
      token == tokens[tokenIdx + 1]
      Throw(pos, msg) == ParseRes(EmptyIterator, logAndThrow(pos, msg, qsv), trap)
      PushItr(stk, it) == [stk EXCEPT ![Len(stk)].itrs = Append(@, it)]
      Opened(e) ==
        IF e.error # NoError THEN ParseRes(EmptyIterator, e.error, trap)
        ELSE getIteratorLoop(qsv, tokens, tokenIdx + 2,
                             Append(stack, e.state), trap)
      Closed(r) ==
        IF r.error # NoError THEN r
        ELSE getIteratorLoop(
               qsv, tokens, tokenIdx + 1,
               PushItr(SubSeq(stack, 1, Len(stack) - 1), r.it), r.trap)
  IN IF tokenIdx >= Len(tokens)
     THEN IF Len(stack) > 1
          THEN Throw(top.startPos, "Unmatched left parenthesis '('.")
          ELSE PartialState_close(top, Len(qsv), qsv, trap)
     ELSE IF token.text = <<"(">>
     THEN Opened(expectNextOperator(tokens, tokenIdx + 1, qsv))
     ELSE IF token.text = <<")">>
     THEN IF stack = <<>> \/ top.op = "ROOT"
          THEN Throw(token.pos, "Unmatched right parenthesis ')'.")
          ELSE Closed(PartialState_close(top, token.pos, qsv, trap))
     ELSE IF starts_with(token.text, kTagPrefix)
     THEN IF top.tag # ""
          THEN Throw(token.pos,
                     "Multiple tags for one operator. Can only set one tag.")
          ELSE getIteratorLoop(
                 qsv, tokens, tokenIdx + 1,
                 [stack EXCEPT ![Len(stack)].tag =
                    Str(SubSeq(token.text, Len(kTagPrefix) + 1,
                               Len(token.text)))],
                 trap)
     ELSE getIteratorLoop(qsv, tokens, tokenIdx + 1,
                          PushItr(stack, getIteratorForTerm(token.text)), trap)

\* Mutant of getIteratorLoop: at the end of the tokens the frame on top of
\* the stack is closed, whatever lies below it.
getIteratorLoop_closeTop(qsv, tokens, tokenIdx, stack, trap) ==
  LET top == stack[Len(stack)]
      token == tokens[tokenIdx + 1]
      Throw(pos, msg) == ParseRes(EmptyIterator, logAndThrow(pos, msg, qsv), trap)
      PushItr(stk, it) == [stk EXCEPT ![Len(stk)].itrs = Append(@, it)]
      Opened(e) ==
        IF e.error # NoError THEN ParseRes(EmptyIterator, e.error, trap)
        ELSE getIteratorLoop(qsv, tokens, tokenIdx + 2,
                             Append(stack, e.state), trap)
      Closed(r) ==
        IF r.error # NoError THEN r
        ELSE getIteratorLoop(
               qsv, tokens, tokenIdx + 1,
               PushItr(SubSeq(stack, 1, Len(stack) - 1), r.it), r.trap)
  IN IF tokenIdx >= Len(tokens)
     THEN PartialState_close(top, Len(qsv), qsv, trap)
     ELSE IF token.text = <<"(">>
     THEN Opened(expectNextOperator(tokens, tokenIdx + 1, qsv))
     ELSE IF token.text = <<")">>
     THEN IF stack = <<>> \/ top.op = "ROOT"
          THEN Throw(token.pos, "Unmatched right parenthesis ')'.")
          ELSE Closed(PartialState_close(top, token.pos, qsv, trap))
     ELSE IF starts_with(token.text, kTagPrefix)
     THEN IF top.tag # ""
          THEN Throw(token.pos,
                     "Multiple tags for one operator. Can only set one tag.")
          ELSE IF top.op = "ROOT"
               THEN Throw(token.pos, "The top level can't have a tag.")
               ELSE getIteratorLoop(
                      qsv, tokens, tokenIdx + 1,
                      [stack EXCEPT ![Len(stack)].tag =
                         Str(SubSeq(token.text, Len(kTagPrefix) + 1,
                                    Len(token.text)))],
                      trap)
     ELSE getIteratorLoop(qsv, tokens, tokenIdx + 1,
                          PushItr(stack, getIteratorForTerm(token.text)), trap)
\* The for loop of QueryParser::getIterator, entered at its test with the
\* 0-based tokenIdx, and what follows the loop.  The top of the stack is its
\* last element.
getIteratorLoop(qsv, tokens, tokenIdx, stack, trap) ==
  LET top == stack[Len(stack)]
      token == tokens[tokenIdx + 1]
      Throw(pos, msg) == ParseRes(EmptyIterator, logAndThrow(pos, msg, qsv), trap)
      PushItr(stk, it) == [stk EXCEPT ![Len(stk)].itrs = Append(@, it)]
      \* e: what expectNextOperator(++tokenIdx) returned
      Opened(e) ==
        IF e.error # NoError THEN ParseRes(EmptyIterator, e.error, trap)
        ELSE getIteratorLoop(qsv, tokens, tokenIdx + 2,
                             Append(stack, e.state), trap)
      \* r: what std::move(stack.top()).close(token, qsv) returned
      Closed(r) ==
        IF r.error # NoError THEN r
        ELSE getIteratorLoop(
               qsv, tokens, tokenIdx + 1,
               PushItr(SubSeq(stack, 1, Len(stack) - 1), r.it), r.trap)
  IN IF tokenIdx >= Len(tokens)
     THEN IF Len(stack) > 1
          THEN Throw(top.startPos, "Unmatched left parenthesis '('.")
          ELSE PartialState_close(top, Len(qsv), qsv, trap)
     ELSE IF token.text = <<"(">>
     THEN Opened(expectNextOperator(tokens, tokenIdx + 1, qsv))
     ELSE IF token.text = <<")">>
     THEN IF stack = <<>> \/ top.op = "ROOT"
          THEN Throw(token.pos, "Unmatched right parenthesis ')'.")
          ELSE Closed(PartialState_close(top, token.pos, qsv, trap))
     ELSE IF starts_with(token.text, kTagPrefix)
     THEN IF top.tag # ""
          THEN Throw(token.pos,
                     "Multiple tags for one operator. Can only set one tag.")
          ELSE IF top.op = "ROOT"
               THEN Throw(token.pos, "The top level can't have a tag.")
               ELSE getIteratorLoop(
                      qsv, tokens, tokenIdx + 1,
                      [stack EXCEPT ![Len(stack)].tag =
                         Str(SubSeq(token.text, Len(kTagPrefix) + 1,
                                    Len(token.text)))],
                      trap)
     ELSE getIteratorLoop(qsv, tokens, tokenIdx + 1,
                          PushItr(stack, getIteratorForTerm(token.text)), trap)

\* QueryParser::getIterator(q)
QueryParser_getIterator(q) ==
  getIteratorLoop(q, split(q), 0, <<PartialState(0, "ROOT")>>, {})

RECURSIVE stackLoop(_, _, _, _)
\* The values the variable stack of QueryParser::getIterator takes, in
\* order: the stack at each test of the for loop, entered with the 0-based
\* tokenIdx, and between stack.pop() and the push_back into the new top.
\* The list ends where getIterator throws or returns.
stackLoop(qsv, tokens, tokenIdx, stack) ==
  LET top == stack[Len(stack)]
      token == tokens[tokenIdx + 1]
      PushItr(stk, it) == [stk EXCEPT ![Len(stk)].itrs = Append(@, it)]
      Popped(stk) == SubSeq(stk, 1, Len(stk) - 1)
      \* e: what expectNextOperator(++tokenIdx) returned
      Opened(e) ==
        IF e.error # NoError THEN <<>>
        ELSE stackLoop(qsv, tokens, tokenIdx + 2, Append(stack, e.state))
      \* r: what std::move(stack.top()).close(token, qsv) returned
      Closed(r) ==
        IF r.error # NoError THEN <<>>
        ELSE <<Popped(stack)>>
               \o (IF Popped(stack) = <<>> THEN <<>>
                   ELSE stackLoop(qsv, tokens, tokenIdx + 1,
                                  PushItr(Popped(stack), r.it)))
  IN <<stack>> \o
     (IF tokenIdx >= Len(tokens) THEN <<>>
      ELSE IF token.text = <<"(">>
      THEN Opened(expectNextOperator(tokens, tokenIdx + 1, qsv))
      ELSE IF token.text = <<")">>
      THEN IF stack = <<>> \/ top.op = "ROOT" THEN <<>>
           ELSE Closed(PartialState_close(top, token.pos, qsv, {}))
      ELSE IF starts_with(token.text, kTagPrefix)
      THEN IF top.tag # "" \/ top.op = "ROOT" THEN <<>>
           ELSE stackLoop(
                  qsv, tokens, tokenIdx + 1,
                  [stack EXCEPT ![Len(stack)].tag =
                     Str(SubSeq(token.text, Len(kTagPrefix) + 1,
                                Len(token.text)))])
      ELSE stackLoop(qsv, tokens, tokenIdx + 1,
                     PushItr(stack, getIteratorForTerm(token.text))))

\* The values of stack while QueryParser::getIterator(q) runs.
getIteratorStacks(q) == stackLoop(q, split(q), 0, <<PartialState(0, "ROOT")>>)

\* The query text of an expression, as a caller writes it: a leaf by the
\* name of its term ("x", which the index does not hold, for the empty
\* cursor), an operator as (op tag:t e1 e2 ...).  Tags are one character.
kAbsentTerm == <<"x">>
OpText(op) ==
  CASE op = "and"  -> <<"a", "n", "d">>
    [] op = "or"   -> <<"o", "r">>
    [] op = "diff" -> <<"d", "i", "f", "f">>

RECURSIVE Unparse(_)
RECURSIVE UnparseAll(_, _)
UnparseAll(args, i) ==
  IF i > Len(args) THEN <<>>
  ELSE <<" ">> \o Unparse(args[i]) \o UnparseAll(args, i + 1)

Unparse(e) ==
  CASE e.op = "vec"   -> TermName(e.docs)
    [] e.op = "empty" -> kAbsentTerm
    [] OTHER ->
         <<"(">> \o OpText(e.op)
           \o (IF e.tag = "" THEN <<>> ELSE <<" ">> \o kTagPrefix \o <<e.tag>>)
           \o UnparseAll(e.args, 1) \o <<")">>

----------------------------------------------------------------------------
(* The caller driving one cursor.                                          *)

VARIABLES
  expr,     \* the query expression the cursor was built from
  query,    \* the query text given to the parser, <<>> when the cursor was
            \* built with makeIterator
  error,    \* the exception getIterator threw, NoError when none
  itr,      \* the root cursor
  aborted,  \* the process was terminated by a failed assertion or a crash
  fresh,    \* the last call was made on the cursor as it was constructed
  \* What the caller saw of the last call (the fields a call does not set
  \* are reset to 0, FALSE or <<>>):
  op,       \* the call: "none", "next", "skipTo", "iterateWith", "getTags"
  arg,      \* the argument, when the call was skipTo
  ret,      \* the boolean returned, when the call was next or skipTo
  prev,     \* value() as it was just before the call
  out,      \* the ids iterateWith handed to its callback
  tags      \* the list getTags returned

vars == <<expr, query, error, itr, aborted, fresh, op, arg, ret, prev, out, tags>>

\* Assertions that are compiled into every build (CHECK).
HardTraps == {"AndIterator CHECK", "OrIterator CHECK",
              "DiffIterator::getTags CHECK"}

\* What the process does with the traps of one call.  A CHECK aborts in
\* every build.  A DCHECK aborts in a build that has it; where NDEBUG
\* compiles it out the call goes on, through undefined behaviour in the
\* cases the DCHECK guards against it, and then either crashes or continues
\* with the state the library code leaves behind.  TRUE stands for the
\* process being gone, FALSE for the call returning.
Outcomes(trap) ==
  IF trap \cap HardTraps # {} THEN {TRUE}
  ELSE IF trap # {} THEN {TRUE, FALSE}
  ELSE {FALSE}

InitRest ==
  /\ fresh = TRUE
  /\ op = "none"
  /\ arg = 0
  /\ ret = FALSE
  /\ prev = kInvalidDocId
  /\ out = <<>>
  /\ tags = <<>>

\* The cursor of a query text, from QueryParser::getIterator.
InitQuery(q) ==
  /\ query = q
  /\ LET Parsed(r) == /\ itr = r.it
                      /\ error = r.error
                      /\ aborted \in Outcomes(r.trap)
     IN Parsed(QueryParser_getIterator(q))
  /\ InitRest

\* The cursor of an expression of exprs, from the parser.
InitParsed(exprs) == expr \in exprs /\ InitQuery(Unparse(expr))

\* A query given as its list of tokens.
Text(tokens) == [op |-> "text", tokens |-> tokens]

RECURSIVE Join(_)
\* The query text of a list of tokens, one space between two tokens.
Join(tokens) ==
  IF tokens = <<>> THEN <<>>
  ELSE IF Len(tokens) = 1 THEN tokens[1]
  ELSE tokens[1] \o <<" ">> \o Join(Tail(tokens))

\* The parser given the text of a list of tokens of texts.
InitText(texts) == expr \in texts /\ InitQuery(Join(expr.tokens))

\* The parser given a text of blanks only, the empty text included.
InitBlank(blanks) ==
  /\ expr = Text(<<>>)
  /\ \E q \in blanks : InitQuery(q)

\* The cursor of an expression of exprs, built directly.
InitOf(exprs) ==
  /\ expr \in exprs
  /\ query = <<>>
  /\ error = NoError
  /\ LET Built(r) == itr = r.it /\ aborted \in Outcomes(r.trap)
     IN Built(Build(expr))
  /\ InitRest

\* The call about to be made finds the cursor as the constructor left it:
\* nothing but getTags, which is const, has been called on it.
OnFresh == fresh /\ op \in {"none", "getTags"}

\* itr->next().  A caller may go on calling next() on an exhausted
\* sorted-vector cursor for ever; MaxOverrun caps how far nextPos_ is taken
\* past the end of the list.
CallNext ==
  /\ ~aborted /\ error = NoError
  /\ itr.kind = "vec" => itr.nextPos < Len(itr.sortedDocIds) + MaxOverrun
  /\ LET Returned(r) == /\ itr' = r.it
                         /\ ret' = r.ret
                         /\ aborted' \in Outcomes(r.trap)
     IN Returned(next(itr))
  /\ op' = "next"
  /\ prev' = value(itr)
  /\ fresh' = OnFresh
  /\ arg' = 0 /\ out' = <<>> /\ tags' = <<>>
  /\ UNCHANGED <<expr, query, error>>

\* itr->skipTo(t), for any t of the id type
CallSkipTo ==
  /\ ~aborted /\ error = NoError
  /\ \E t \in Targets :
       LET Returned(r) == /\ itr' = r.it
                          /\ ret' = r.ret
                          /\ arg' = t
                          /\ aborted' \in Outcomes(r.trap)
       IN Returned(skipTo(itr, t))
  /\ op' = "skipTo"
  /\ prev' = value(itr)
  /\ fresh' = OnFresh
  /\ out' = <<>> /\ tags' = <<>>
  /\ UNCHANGED <<expr, query, error>>

\* itr->iterateWith(callback)
CallIterateWith ==
  /\ ~aborted /\ error = NoError
  /\ LET Returned(r) == /\ itr' = r.it
                         /\ out' = r.out
                         /\ aborted' \in Outcomes(r.trap)
     IN Returned(iterateWith(itr))
  /\ op' = "iterateWith"
  /\ prev' = value(itr)
  /\ fresh' = OnFresh
  /\ arg' = 0 /\ ret' = FALSE /\ tags' = <<>>
  /\ UNCHANGED <<expr, query, error>>

\* itr->getTags()
CallGetTags ==
  /\ ~aborted /\ error = NoError
  /\ LET Returned(r) == /\ tags' = r.tags
                         /\ aborted' \in Outcomes(r.trap)
     IN Returned(getTags(itr))
  /\ op' = "getTags"
  /\ prev' = value(itr)
  /\ fresh' = OnFresh
  /\ arg' = 0 /\ ret' = FALSE /\ out' = <<>>
  /\ UNCHANGED <<expr, query, error, itr>>

Next == CallNext \/ CallSkipTo \/ CallIterateWith \/ CallGetTags

----------------------------------------------------------------------------
(* Families of query expressions and the specifications over them.         *)

TermExprs == {Term(l) : l \in Lists}
\* Leaves over posting lists of at most one id.
ShortTerms == {Term(<<>>)} \cup {Term(<<d>>) : d \in DocIds}
\* What a term factory can return: a sorted-vector cursor or the empty one.
LeafExprs == TermExprs \cup {EmptyTerm}

SeqsUpTo(S, n) == UNION {[1 .. k -> S] : k \in 1 .. n}

\* An operator over MaxChildren + 1 leaves on short posting lists.
Wide(o) == {Op(o, "", a) : a \in [1 .. MaxChildren + 1 -> ShortTerms]}

\* An operator over 1 .. MaxChildren leaves on arbitrary posting lists, or
\* over MaxChildren + 1 leaves on short ones.
Flat(o) == {Op(o, "", a) : a \in SeqsUpTo(TermExprs, MaxChildren)} \cup Wide(o)

\* An operator over one leaf or over a pair of leaves.
Small(o) ==
  {Op(o, "", <<a>>) : a \in LeafExprs}
    \cup {Op(o, "", <<a, b>>) : a \in TermExprs, b \in TermExprs}

AndExprs == Flat("and")
OrExprs == Flat("or")
DiffExprs == {Op("diff", "", <<a, b>>) : a \in LeafExprs, b \in LeafExprs}

Ops == {"and", "or", "diff"}

\* An operator whose left or right child is itself an operator, over the
\* leaves L.
Nested(L) ==
  {Op(o1, "", <<Op(o2, "", <<a, b>>), c>>) :
     o1 \in Ops, o2 \in Ops, a \in L, b \in L, c \in L}
    \cup
  {Op(o1, "", <<a, Op(o2, "", <<b, c>>)>>) :
     o1 \in Ops, o2 \in Ops, a \in L, b \in L, c \in L}

\* (diff (and a (or b c) d) e), the tree of TestCompoundIterator and of
\* RandomTermIteratorTest, over the leaves L.
Compound(L) ==
  {Op("diff", "",
      <<Op("and", "", <<a, Op("or", "", <<b, c>>), d>>), e>>) :
     a \in L, b \in L, c \in L, d \in L, e \in L}

\* Leaves on short posting lists, and the empty cursor a term factory
\* returns for a term its index does not hold.
ShortLeaves == ShortTerms \cup {EmptyTerm}

NestedExprs == Nested(ShortTerms)
CompoundExprs == Compound(ShortTerms)
\* Trees in which operators are children of operators.
TreeExprs == Nested(ShortLeaves) \cup Compound(ShortLeaves)

\* Operators built with and without a tag, over leaves on short posting
\* lists and over one inner operator: "p" tags the outer operator, "q" the
\* inner one.
OuterTags == {"", "p"}
InnerTags == {"", "q"}
TaggedExprs ==
  {Op(o, t, <<a, b>>) :
     o \in Ops, t \in OuterTags, a \in ShortLeaves, b \in ShortLeaves}
    \cup
  {Op(o1, t1, <<Op(o2, t2, <<a, b>>), c>>) :
     o1 \in Ops, o2 \in Ops, t1 \in OuterTags, t2 \in InnerTags,
     a \in ShortTerms, b \in ShortTerms, c \in ShortTerms}
    \cup
  {Op(o1, t1, <<a, Op(o2, t2, <<b, c>>)>>) :
     o1 \in Ops, o2 \in Ops, t1 \in OuterTags, t2 \in InnerTags,
     a \in ShortTerms, b \in ShortTerms, c \in ShortTerms}

\* The operators tagged t over short terms: an and or an or of one term, a
\* diff of two.
TaggedNodes(t) ==
  {Op(o, t, <<a>>) : o \in {"and", "or"}, a \in ShortTerms} \cup
  {Op("diff", t, <<a, b>>) : a \in ShortTerms, b \in ShortTerms}

\* An operator, with or without the tag "p", over two operators tagged "q"
\* and "r", as the or of TestIteratorsWithTags is.
SiblingExprs ==
  {Op(o1, t1, <<l, r>>) :
     o1 \in Ops, t1 \in OuterTags, l \in TaggedNodes("q"), r \in TaggedNodes("r")}

\* Every kind of cursor: the leaves, each operator over leaves, operators
\* over operators.
AllExprs ==
  LeafExprs \cup Small("and") \cup Small("or") \cup Wide("and") \cup Wide("or")
    \cup DiffExprs \cup NestedExprs \cup CompoundExprs

\* The tokens of the query language: the parentheses, an operator that
\* takes any number of sub-expressions and the one that takes two, a tag and
\* a term the index holds.
QueryTokens ==
  {<<"(">>, <<")">>, OpText("and"), OpText("diff"),
   kTagPrefix \o <<"j">>, TermName(<<0>>)}
\* Every list of at most MaxTokens tokens.
TextExprs == {Text(<<>>)} \cup {Text(ts) : ts \in SeqsUpTo(QueryTokens, MaxTokens)}
\* Texts of at most MaxTokens blanks.
BlankQueries ==
  {<<>>} \cup SeqsUpTo({" ", "\t", "\n", kVerticalTab}, MaxTokens)

\* Two terms that differ.
TwoTerms == {Term(<<0>>), Term(<<MaxDocId>>)}
\* (diff ...) written with 0 .. MaxChildren + 1 terms.
DiffForms ==
  {Op("diff", "", <<>>)} \cup
  {Op("diff", "", a) : a \in SeqsUpTo(TwoTerms, MaxChildren + 1)}
\* The expressions with e as a sub-expression, one level down.
Around(e) ==
  {Op("and", "", <<e>>), Op("or", "", <<Term(<<0>>), e>>),
   Op("diff", "", <<e, Term(<<0>>)>>), Op("diff", "", <<Term(<<0>>), e>>)}
\* A (diff ...) at the outermost level, one level down and two levels down.
DeepDiffForms ==
  DiffForms \cup UNION {Around(d) : d \in DiffForms}
    \cup UNION {UNION {Around(w) : w \in Around(d)} : d \in DiffForms}

RECURSIVE Wrapped(_, _)
\* The expression e inside untagged operators of one sub-expression, ops
\* listing them from the innermost to the outermost.
Wrapped(e, ops) ==
  IF ops = <<>> THEN e
  ELSE Wrapped(Op(Head(ops), "", <<e>>), Tail(ops))
\* One term inside 1 .. MaxDepth and/or operators, as the query of
\* TestNestedOperators is.
NestExprs ==
  {Wrapped(e, ops) :
     e \in LeafExprs, ops \in SeqsUpTo({"and", "or"}, MaxDepth)}

\* Tag tokens: two names and the bare prefix.
TagTokens == {kTagPrefix, kTagPrefix \o <<"j">>, kTagPrefix \o <<"k">>}
\* An and or an or of one term written with two tag tokens, both before the
\* term or one on each side of it.
TwoTagTexts ==
  {Text(<<<<"(">>, OpText(o), t1, t2, TermName(<<0>>), <<")">>>>) :
     o \in {"and", "or"}, t1 \in TagTokens, t2 \in TagTokens}
    \cup
  {Text(<<<<"(">>, OpText(o), t1, TermName(<<0>>), t2, <<")">>>>) :
     o \in {"and", "or"}, t1 \in TagTokens, t2 \in TagTokens}

\* A tag token before or after a term or an operator expression, or alone,
\* at the outermost level.
TopTagTexts ==
  LET body == {<<>>, <<TermName(<<0>>)>>,
               <<<<"(">>, OpText("and"), TermName(<<0>>), <<")">>>>}
  IN {Text(<<t>> \o b) : t \in TagTokens, b \in body}
       \cup {Text(b \o <<t>>) : t \in TagTokens, b \in body}

\* Every list a caller can hand to Iterator::getVectorIterator, ascending
\* or not, of at most as many ids as there are.
AnyLists == {<<>>} \cup SeqsUpTo(DocIds, MaxDocId + 1)
AnyTerms == {Term(l) : l \in AnyLists}

\* The term of the list docs under an and tagged t.
TaggedTerm(t, docs) == Op("and", t, <<Term(docs)>>)
\* An or of three tagged terms, two on arbitrary posting lists and one on a
\* short one, or of MaxChildren + 2 tagged terms on posting lists of one id.
OrOfTagged ==
  {Op("or", "", <<TaggedTerm("q", a), TaggedTerm("r", b), TaggedTerm("s", c.docs)>>) :
     a \in Lists, b \in Lists, c \in ShortTerms}
    \cup
  {Op("or", "", [i \in 1 .. MaxChildren + 2 |-> TaggedTerm(ToString(i), <<s[i]>>)]) :
     s \in [1 .. MaxChildren + 2 -> DocIds]}

Init == InitOf(AllExprs)
InitAnd == InitOf(AndExprs)
InitOr == InitOf(OrExprs)
InitDiff == InitOf(DiffExprs)
\* A tree, built with makeIterator or by the parser from its query text.
InitTree == InitOf(TreeExprs) \/ InitParsed(TreeExprs)
InitTags == InitOf(LeafExprs \cup TaggedExprs \cup SiblingExprs)

Spec == Init /\ [][Next]_vars
SpecAnd == InitAnd /\ [][Next]_vars
SpecOr == InitOr /\ [][Next]_vars
SpecDiff == InitDiff /\ [][Next]_vars
SpecTree == InitTree /\ [][Next]_vars
SpecTags == InitTags /\ [][Next]_vars
\* next() can be called and moves the cursor: the cursor is valid, so the
\* call changes it.
CanMove == ~aborted /\ error = NoError /\ valid(itr)
\* A caller that goes on calling next(): whatever else it calls, a call of
\* next() that would move the cursor is not put off for ever.  This is
\* WF_vars(CallNext) with CanMove written for ENABLED <<CallNext>>_vars.
NextFairness == []<>(~CanMove) \/ []<><<CallNext>>_vars
SpecDrain == Init /\ [][Next]_vars /\ NextFairness
\* An or whose children are all tagged.
InitOrTags == InitOf(OrOfTagged)
SpecOrTags == InitOrTags /\ [][Next]_vars
\* A sorted-vector cursor over any list.
InitVector == InitOf(AnyTerms)
SpecVector == InitVector /\ [][Next]_vars
\* The parser on arbitrary query texts.
InitParse ==
  \/ InitText(TextExprs \cup TwoTagTexts \cup TopTagTexts)
  \/ InitBlank(BlankQueries)
  \/ InitParsed(DeepDiffForms \cup NestExprs)
SpecParse == InitParse /\ [][Next]_vars

----------------------------------------------------------------------------
(* Properties.                                                             *)

\* The last call was iterateWith, made on the cursor as constructed.
DrainedFromConstruction == op = "iterateWith" /\ fresh /\ ~aborted

\* C1: an AndIterator over k >= 1 leaf cursors, driven by next() from
\* construction until valid() is false, yields exactly the ascending
\* sequence of the ids present in every list, in whatever order the
\* children were passed.
C1_AndYieldsIntersection ==
  DrainedFromConstruction =>
    /\ out = SortSet(Eval(expr))
    /\ ~valid(itr)

\* C1 witness: a drained AND of two or more lists that yielded two ids and
\* left out an id some child holds.
C1_Witness ==
  /\ DrainedFromConstruction
  /\ expr.op = "and" /\ Len(expr.args) >= 2
  /\ Len(out) >= 2
  /\ \E i \in 1 .. Len(expr.args) : Range(expr.args[i].docs) # Range(out)

\* C2: an OrIterator over k >= 1 leaf cursors, driven by next() until
\* exhaustion, yields exactly the ascending union of the lists, each id
\* once, also when several children stand on the same id.
C2_OrYieldsUnion ==
  DrainedFromConstruction =>
    /\ out = SortSet(Eval(expr))
    /\ ~valid(itr)

\* C2 witness: a drained OR where some id is held by two children and
\* some id by one child only.
C2_Witness ==
  /\ DrainedFromConstruction
  /\ expr.op = "or" /\ Len(expr.args) >= 2
  /\ \E i, j \in 1 .. Len(expr.args) :
       /\ i # j
       /\ Range(expr.args[i].docs) \cap Range(expr.args[j].docs) # {}
       /\ Range(expr.args[i].docs) # Range(expr.args[j].docs)
  /\ Len(out) >= 2

\* C3: a DiffIterator(a, b) driven by next() until exhaustion yields exactly
\* the ids of a that are not in b, ascending; DIFF(x, empty) yields x,
\* DIFF(empty, x) and DIFF(x, x) yield nothing.
C3_DiffYieldsDifference ==
  DrainedFromConstruction =>
    LET a == expr.args[1]
        b == expr.args[2]
    IN /\ out = SortSet(Eval(a) \ Eval(b))
       /\ ~valid(itr)
       /\ Eval(b) = {} => out = SortSet(Eval(a))
       /\ Eval(a) = {} => out = <<>>
       /\ Eval(a) = Eval(b) => out = <<>>

\* C3 witness: a drained DIFF that dropped an id of a found in b, kept
\* another, and whose b holds an id that a does not.
C3_Witness ==
  /\ DrainedFromConstruction
  /\ expr.op = "diff"
  /\ out # <<>>
  /\ Eval(expr.args[1]) \cap Eval(expr.args[2]) # {}
  /\ Eval(expr.args[2]) \ Eval(expr.args[1]) # {}

Least(S) == CHOOSE x \in S : \A y \in S : x <= y

\* The last call was made on a valid cursor and returned.
CalledOnValid == op # "none" /\ ~aborted /\ prev # kInvalidDocId

\* C5: on a valid cursor of any kind, at any point of any interleaving of
\* next() and skipTo(), skipTo(t) with t above the current value leaves the
\* cursor on the least id >= t of the set the query denotes, and exhausted
\* exactly when that set holds no id >= t.
C5_SkipToLandsOnLeastFrom ==
  (CalledOnValid /\ op = "skipTo" /\ arg > prev) =>
    LET S == {d \in Eval(expr) : d >= arg}
    IN IF S = {} THEN ~valid(itr) /\ ~ret
       ELSE valid(itr) /\ value(itr) = Least(S)

\* C5 witness: in the middle of an interleaving, an operator over operators
\* was asked to skip to an id it does not hold and landed behind it.
C5_Witness ==
  /\ CalledOnValid /\ op = "skipTo" /\ ~fresh
  /\ arg > prev
  /\ valid(itr) /\ value(itr) > arg
  /\ expr \in NestedExprs

\* C6: through any sequence of next() and skipTo() the values read while
\* valid() is true never decrease, strictly increase across a next() that
\* returns true, and are never kInvalidDocId.
C6_ValuesAscend ==
  /\ (~aborted /\ valid(itr)) => value(itr) \in DocIds
  /\ (CalledOnValid /\ valid(itr)) =>
       /\ value(itr) >= prev
       /\ (op = "next" /\ ret) => value(itr) > prev

\* C6 witness: next() returned true on an OR whose children shared the id
\* left behind.
C6_Witness ==
  /\ CalledOnValid /\ op = "next" /\ ret
  /\ expr.op = "or" /\ Len(expr.args) >= 2
  /\ \A i \in 1 .. Len(expr.args) : prev \in Eval(expr.args[i])
  /\ value(itr) > prev

\* C7: exhaustion is terminal.  Whatever is called on a cursor whose
\* valid() is false (next, skipTo with any target, iterateWith, getTags),
\* valid() is false afterwards.
C7_ExhaustionIsTerminal ==
  (op # "none" /\ ~aborted /\ prev = kInvalidDocId) => ~valid(itr)

\* C7 witness: skipTo was called, with a target the query matches, on an
\* operator cursor that had run out.
C7_Witness ==
  /\ op = "skipTo" /\ ~aborted /\ prev = kInvalidDocId
  /\ expr.op \in Ops
  /\ arg \in Eval(expr)

\* C8: skipTo(t) with t <= value() on a valid cursor is a no-op: the cursor
\* stays valid on the same value and yields from there the sequence it
\* would have yielded without the call.
C8_SkipToBackwardIsNoOp ==
  [][(op' = "skipTo" /\ ~aborted' /\ valid(itr) /\ arg' <= value(itr)) =>
       /\ ret'
       /\ valid(itr')
       /\ value(itr') = value(itr)
       /\ iterateWith(itr').out = iterateWith(itr).out]_vars

\* C8 witness: such a call made on an OR of two or more lists that still
\* has ids to yield after the current one.
C8_Witness ==
  /\ CalledOnValid /\ op = "skipTo" /\ arg <= prev
  /\ expr.op = "or" /\ Len(expr.args) >= 2
  /\ Len(iterateWith(itr).out) >= 2

\* C9: the boolean next() and skipTo(t) return is what valid() answers
\* right after the call.
C9_ReturnIsValid ==
  (op \in {"next", "skipTo"} /\ ~aborted) => ret = valid(itr)

\* C9 witness: next() on an AND advanced slot 0 to a further id and the
\* alignment then ran another child out: false is returned while some child
\* is still valid.
C9_Witness ==
  /\ CalledOnValid /\ op = "next" /\ ~ret
  /\ expr.op = "and"
  /\ \E i \in 1 .. Len(itr.children) : valid(itr.children[i])

\* getTags() was the last call, made on a cursor that was not valid.  The
\* call leaves the cursor as it found it.
GetTagsOnInvalid == op = "getTags" /\ ~valid(itr)

\* C10 as stated: getTags() on a cursor that is not valid returns the empty
\* list and does not fail or abort.
C10_Original == GetTagsOnInvalid => (~aborted /\ tags = <<>>)

\* C10, amended: getTags() on a cursor that is not valid returns the empty
\* list without aborting when the cursor is a leaf.  An exhausted DIFF built
\* without a tag aborts on CHECK(valid()).  An operator built with a tag
\* whose class reports hasTag() false returns its own tag and does not
\* abort.  An exhausted AND or OR built without a tag over children without
\* tags returns the empty list when its DCHECK(valid()) lets it return.
C10_GetTagsOnInvalid ==
  GetTagsOnInvalid =>
    /\ itr.kind \in {"empty", "vec"} => (~aborted /\ tags = <<>>)
    /\ (itr.kind = "diff" /\ itr.tag = "") => aborted
    /\ (itr.tag # "" /\ ~hasTag([itr EXCEPT !.tag = ""]))
         => (~aborted /\ tags = <<itr.tag>>)
    /\ (itr.kind \in {"and", "or"} /\ itr.tag = "" /\ ~itr.childrenHaveTags
          /\ ~aborted) => tags = <<>>

\* An exhausted OR built with a tag has just reported that tag.
C10_Witness ==
  /\ GetTagsOnInvalid
  /\ itr.kind = "or" /\ itr.tag = "p" /\ ~fresh
  /\ ~aborted /\ tags = <<"p">>

\* C4: a tree in which operators are children of operators, built with
\* makeIterator or by QueryParser::getIterator from its query text (which
\* the parser accepts), yields from construction exactly the ids of the
\* set expression it stands for, in ascending order: AND is intersection,
\* OR union, DIFF difference, a term the index does not hold the empty set.
C4_TreesYieldSetExpression ==
  /\ error = NoError
  /\ DrainedFromConstruction => (out = SortSet(Eval(expr)) /\ ~valid(itr))

\* The parser built (diff (and a (or b x) d) e) with x absent from the
\* index, and the cursor yielded at least one id.
C4_Witness ==
  /\ DrainedFromConstruction
  /\ query # <<>>
  /\ expr.op = "diff" /\ expr.args[1].op = "and"
  /\ Len(expr.args[1].args) = 3
  /\ expr.args[1].args[2].op = "or"
  /\ expr.args[1].args[2].args[2] = EmptyTerm
  /\ out # <<>>

\* C11 as stated: whenever valid() is false, remainingDocs() returns 0, for
\* every kind of cursor and after any calls of next() and skipTo(), those
\* made on an exhausted cursor included.
C11_RemainingDocsZeroWhenInvalid ==
  (~aborted /\ error = NoError /\ ~valid(itr)) => remainingDocs(itr) = 0

RECURSIVE FiredTags(_, _)
\* The tags of the tagged operators of e whose subtree contributes to the
\* id v of Eval(e): the operator e itself, every child of an AND, the
\* children of an OR that hold v, the left child of a DIFF.
FiredTags(e, v) ==
  IF e.op \in {"vec", "empty"} THEN {}
  ELSE (IF e.tag = "" THEN {} ELSE {e.tag}) \cup
       (CASE e.op = "and" ->
               UNION {FiredTags(e.args[i], v) : i \in 1 .. Len(e.args)}
          [] e.op = "or" ->
               UNION {FiredTags(e.args[i], v) :
                        i \in {j \in 1 .. Len(e.args) : v \in Eval(e.args[j])}}
          [] e.op = "diff" -> FiredTags(e.args[1], v))

\* getTags() was the last call, made on a valid cursor, and it returned.
GotTagsOnValid == op = "getTags" /\ ~aborted /\ valid(itr)

\* C12: at every value v the root stands on, getTags() holds the tag of a
\* tagged operator exactly when its subtree contributes to v (every child
\* of an AND, the children of an OR standing on v, the left side of a
\* DIFF), and holds each such tag once.
C12_TagsOfContributors ==
  GotTagsOnValid =>
    /\ value(itr) \in Eval(expr)
    /\ Range(tags) = FiredTags(expr, value(itr))
    /\ Len(tags) = Cardinality(FiredTags(expr, value(itr)))

\* An OR tagged "p" over operators tagged "q" and "r" stands on an id that
\* only the second one holds, after having moved.
C12_Witness ==
  /\ GotTagsOnValid /\ ~fresh
  /\ expr.op = "or" /\ expr.tag = "p" /\ Len(expr.args) = 2
  /\ expr.args[1].tag = "q" /\ expr.args[2].tag = "r"
  /\ tags = <<"r", "p">>

\* The tags the children of the operator e report at the id v.
ChildrenTags(e, v) ==
  CASE e.op = "and" -> UNION {FiredTags(e.args[i], v) : i \in 1 .. Len(e.args)}
    [] e.op = "or" ->
         UNION {FiredTags(e.args[i], v) :
                  i \in {j \in 1 .. Len(e.args) : v \in Eval(e.args[j])}}
    [] e.op = "diff" -> FiredTags(e.args[1], v)
    [] OTHER -> {}

\* The cursor was built from an operator expression.
IsOperator == expr.op \in Ops

\* C13: an operator built with a non-empty tag has hasTag() true, and on a
\* valid cursor getTags() is the tags its children report followed by its
\* own tag as the last element; an operator built with an empty tag
\* reports the tags of its children and none of its own.
C13_OwnTagLast ==
  (IsOperator /\ ~aborted /\ error = NoError) =>
    /\ expr.tag # "" => hasTag(itr)
    /\ (GotTagsOnValid /\ expr.tag # "") =>
         /\ Len(tags) >= 1
         /\ tags[Len(tags)] = expr.tag
         /\ Range(SubSeq(tags, 1, Len(tags) - 1)) = ChildrenTags(expr, value(itr))
         /\ Len(tags) - 1 = Cardinality(ChildrenTags(expr, value(itr)))
    /\ (GotTagsOnValid /\ expr.tag = "") =>
         /\ Range(tags) = ChildrenTags(expr, value(itr))
         /\ Len(tags) = Cardinality(ChildrenTags(expr, value(itr)))

\* An AND tagged "p" over operators tagged "q" and "r" reports the three
\* tags, inner ones first, after having moved.
C13_Witness ==
  /\ GotTagsOnValid /\ ~fresh
  /\ expr.op = "and" /\ expr.tag = "p"
  /\ tags = <<"q", "r", "p">>

RECURSIVE TagsIn(_)
\* The tags of the operators of the expression e, itself included.
TagsIn(e) ==
  IF e.op \in {"vec", "empty"} THEN {}
  ELSE (IF e.tag = "" THEN {} ELSE {e.tag}) \cup
       UNION {TagsIn(e.args[i]) : i \in 1 .. Len(e.args)}

\* C14: at every id a DIFF stands on, getTags() holds only tags of the left
\* subtree and the tag of the DIFF itself; no tag of an operator of the
\* right subtree appears, wherever the right subtree stands.
C14_DiffTagsFromLeftOnly ==
  (GotTagsOnValid /\ expr.op = "diff") =>
    /\ Range(tags) \subseteq
         TagsIn(expr.args[1]) \cup (IF expr.tag = "" THEN {} ELSE {expr.tag})
    /\ Range(tags) \cap TagsIn(expr.args[2]) = {}

\* A DIFF over operators tagged "q" and "r" stands on an id after having
\* moved, its right side standing on a greater id, and reports only "q".
C14_Witness ==
  /\ GotTagsOnValid /\ ~fresh
  /\ expr.op = "diff" /\ expr.tag = ""
  /\ TagsIn(expr.args[1]) = {"q"} /\ TagsIn(expr.args[2]) = {"r"}
  /\ valid(itr.children[2]) /\ value(itr.children[2]) > value(itr)
  /\ tags = <<"q">>

\* C15 as stated: hasTag() is true exactly when the cursor or one of its
\* descendants, the right child of a DIFF included, was built with a tag,
\* in every state of the cursor's life.
C15_HasTagIffAnyDescendantTagged ==
  (~aborted /\ error = NoError) => (hasTag(itr) <=> TagsIn(expr) # {})

\* The parser was given a list of tokens.
IsText == expr.op = "text"

RECURSIVE Depth(_, _)
\* The number of parentheses open after the first n tokens of ts.
Depth(ts, n) ==
  IF n = 0 THEN 0
  ELSE Depth(ts, n - 1) + (CASE ts[n] = <<"(">> -> 1
                             [] ts[n] = <<")">> -> -1
                             [] OTHER -> 0)

\* The 0-based offset of token n in Join(ts).
RECURSIVE Offset(_, _)
Offset(ts, n) == IF n = 1 THEN 0 ELSE Offset(ts, n - 1) + Len(ts[n - 1]) + 1

\* The tokens of ts that are a ')' with no parenthesis open.
StrayClosers(ts) ==
  {n \in 1 .. Len(ts) : ts[n] = <<")">> /\ Depth(ts, n - 1) = 0}
\* No ')' of ts is stray, and some '(' of ts is never closed.
LeftOpen(ts) == StrayClosers(ts) = {} /\ Depth(ts, Len(ts)) > 0

\* C17: a list of tokens whose parentheses are unbalanced is a parse error
\* and no cursor is returned: with a ')' where no operator is open, the
\* parser fails at that token unless it failed before it; with the end of
\* the input reached while an operator is open, it fails.
C17_UnbalancedParenthesesFail ==
  IsText =>
    /\ \A n \in StrayClosers(expr.tokens) :
         /\ error # NoError
         /\ error.pos <= Offset(expr.tokens, n)
         /\ (error.msg = "Unmatched right parenthesis ')'." =>
              error.pos = Offset(expr.tokens, Least(StrayClosers(expr.tokens))))
    /\ LeftOpen(expr.tokens) => error # NoError
    /\ error # NoError => itr = EmptyIterator

\* The parser failed at a ')' that follows a complete expression.
C17_WitnessStray ==
  /\ IsText /\ StrayClosers(expr.tokens) # {}
  /\ error.msg = "Unmatched right parenthesis ')'." /\ error.pos > 0

\* The parser failed at the end of a text in which an operator with a
\* sub-expression was still open.
C17_Witness ==
  /\ IsText /\ LeftOpen(expr.tokens)
  /\ error.msg = "Unmatched left parenthesis '('."
  /\ Len(expr.tokens) >= 3

\* The expressions of ts at the outermost level: the terms met with no
\* parenthesis open and the parentheses that close the outermost operator.
TopLevel(ts) ==
  {n \in 1 .. Len(ts) :
     \/ Depth(ts, n - 1) = 0 /\ ts[n] \notin {<<"(">>, <<")">>}
                             /\ ~starts_with(ts[n], kTagPrefix)
     \/ Depth(ts, n - 1) = 1 /\ ts[n] = <<")">>}

\* C18: getIterator returns a cursor only if the outermost level holds
\* exactly one expression at the end of the input: a text of no tokens is
\* a parse error, and so is a text of two or more top-level expressions.
C18_OneTopLevelExpression ==
  IsText =>
    /\ error = NoError => Cardinality(TopLevel(expr.tokens)) = 1
    /\ expr.tokens = <<>> => error # NoError
    /\ Cardinality(TopLevel(expr.tokens)) >= 2 => error # NoError

\* The parser failed at the end of a text of two well-formed top-level
\* expressions, one of them an operator.
C18_Witness ==
  /\ IsText /\ Cardinality(TopLevel(expr.tokens)) = 2
  /\ <<")">> \in Range(expr.tokens)
  /\ error.msg = "There are multiple queries."
  /\ error.pos = Len(query)

\* The parser failed on a text of blanks only.
C18_WitnessBlank ==
  /\ IsText /\ expr.tokens = <<>> /\ Len(query) >= 2
  /\ error.msg = "An operator doesn't have any sub-expression."

\* The parser was given the text of an operator expression.
IsParsedOperator == expr.op \in Ops /\ query # <<>>

RECURSIVE HasBadDiff(_)
\* Some diff of e, at any depth, has other than 2 sub-expressions.
HasBadDiff(e) ==
  /\ e.op \in Ops
  /\ \/ e.op = "diff" /\ Len(e.args) # 2
     \/ \E i \in 1 .. Len(e.args) : HasBadDiff(e.args[i])

\* What the parser returns for the text of e.
Parsed(e) == QueryParser_getIterator(Unparse(e))

\* C16: a query in which some (diff ...), at any depth, is closed with a
\* number of sub-expressions other than 2 is a parse error; a (diff ...)
\* with 2 well-formed sub-expressions is the DIFF cursor whose left side is
\* the cursor of the first and whose right side is the cursor of the second.
C16_DiffTakesExactlyTwo ==
  IsParsedOperator =>
    /\ HasBadDiff(expr) => (error # NoError /\ itr = EmptyIterator)
    /\ (expr.op = "diff" /\ ~HasBadDiff(expr)) =>
         /\ error = NoError
         /\ op = "none" =>
              itr = DiffIterator("", Parsed(expr.args[1]).it,
                                 Parsed(expr.args[2]).it).it

\* The parser failed on a text in which a diff two levels down has three
\* sub-expressions.
C16_Witness ==
  /\ IsParsedOperator /\ HasBadDiff(expr)
  /\ \E i \in 1 .. Len(expr.args) : \E j \in 1 .. Len(expr.args[i].args) :
       /\ expr.args[i].args[j].op = "diff"
       /\ Len(expr.args[i].args[j].args) = 3
  /\ error.msg = "The diff operator requires exactly 2 sub-expressions. Instead, 3 ones are provided."

\* The parser returned the DIFF of two different terms, in their order.
C16_WitnessTwo ==
  /\ IsParsedOperator /\ expr.op = "diff" /\ op = "none" /\ error = NoError
  /\ expr.args = <<Term(<<MaxDocId>>), Term(<<0>>)>>
  /\ itr.kind = "diff" /\ value(itr) = MaxDocId

\* An untagged and/or written with exactly one sub-expression.
IsSingle(e) == e.op \in {"and", "or"} /\ e.tag = "" /\ Len(e.args) = 1

RECURSIVE Innermost(_)
\* What lies inside the untagged single-child and/or operators of e.
Innermost(e) == IF IsSingle(e) THEN Innermost(e.args[1]) ELSE e

\* C19: the parser gives an untagged (and x) or (or x) the cursor of x
\* itself, so that any depth of such operators around one term returns the
\* cursor the factory made for the term, and no call on it ever shows an
\* operator node.
C19_SingleChildCollapses ==
  (IsParsedOperator /\ IsSingle(expr)) =>
    LET Same(outer, inner) ==
          /\ (outer.error = NoError) = (inner.error = NoError)
          /\ outer.error = NoError => outer.it = inner.it
    IN /\ op = "none" =>
            /\ Same([it |-> itr, error |-> error], Parsed(expr.args[1]))
            /\ Same([it |-> itr, error |-> error], Parsed(Innermost(expr)))
       /\ Innermost(expr).op \in {"vec", "empty"} =>
            /\ error = NoError
            /\ op = "none" => itr = getIteratorForTerm(Unparse(Innermost(expr)))
            /\ itr.kind = Innermost(expr).op
            /\ itr.sortedDocIds = Innermost(expr).docs

\* A term inside MaxDepth operators, and and or among them, was parsed and
\* its cursor moved to its second id.
C19_Witness ==
  /\ IsParsedOperator /\ IsSingle(expr)
  /\ IsSingle(expr.args[1]) /\ expr.args[1].op # expr.op
  /\ IsSingle(expr.args[1].args[1])
  /\ Len(Innermost(expr).docs) >= 2
  /\ op = "next" /\ ~aborted /\ itr.kind = "vec" /\ itr.nextPos = 1

\* The tokens of ts that are tag tokens in the body of an operator.
TagsAt(ts) ==
  {n \in 1 .. Len(ts) :
     starts_with(ts[n], kTagPrefix) /\ Depth(ts, n) >= 1 /\ ts[n - 1] # <<"(">>}
\* Tokens i < j of ts lie in the body of the same operator.
SameOperator(ts, i, j) ==
  \A k \in i .. j : Depth(ts, k) >= Depth(ts, i) /\ Depth(ts, j) = Depth(ts, i)
\* Some operator of ts is given two tag tokens.
HasTwoTags(ts) ==
  \E i \in TagsAt(ts) : \E j \in TagsAt(ts) : i < j /\ SameOperator(ts, i, j)

\* C20 as stated: a text in which one operator is given a second tag token
\* is a parse error; no such text is ever accepted.
C20_SecondTagRejected ==
  (IsText /\ HasTwoTags(expr.tokens)) => error # NoError

\* The tag tokens of ts met with no parenthesis open.
TopTags(ts) ==
  {n \in 1 .. Len(ts) : starts_with(ts[n], kTagPrefix) /\ Depth(ts, n - 1) = 0}

\* C21: a tag token at the outermost level of the query, before or after a
\* top-level expression, is a parse error raised at that token or before
\* it, so that no cursor is returned for a text that tags the outermost
\* level.
C21_TopLevelTagRejected ==
  (IsText /\ TopTags(expr.tokens) # {}) =>
    /\ error # NoError
    /\ error.pos <= Offset(expr.tokens, Least(TopTags(expr.tokens)))
    /\ itr = EmptyIterator

\* The parser failed at a tag token that follows a complete operator
\* expression.
C21_Witness ==
  /\ IsText /\ TopTags(expr.tokens) # {}
  /\ error.msg = "The top level can't have a tag."
  /\ error.pos > 0
  /\ <<")">> \in Range(expr.tokens)

\* The operator keywords.
Keywords == {OpText(o) : o \in Ops}

\* The '(' tokens of ts that no operator keyword follows.
BareOpeners(ts) ==
  {n \in 1 .. Len(ts) :
     ts[n] = <<"(">> /\ (n = Len(ts) \/ ts[n + 1] \notin Keywords)}

\* The keywords of ts that do not follow a '('.
LooseKeywords(ts) ==
  {n \in 1 .. Len(ts) : ts[n] \in Keywords /\ (n = 1 \/ ts[n - 1] # <<"(">>)}

\* ts with a term the index does not hold in the place of every keyword
\* that does not follow a '('.
AsTerms(ts) ==
  [n \in 1 .. Len(ts) |-> IF n \in LooseKeywords(ts) THEN kAbsentTerm ELSE ts[n]]

\* C22: a '(' that is the last token, or that is followed by anything but
\* and, or, diff, is a parse error; the words and, or, diff anywhere else
\* are terms like any other, so the text parses as it does with a term the
\* index does not hold in their place.
C22_OperatorAfterParenthesis ==
  IsText =>
    /\ BareOpeners(expr.tokens) # {} => (error # NoError /\ itr = EmptyIterator)
    /\ op = "none" =>
         LET Same(r) == r.it = itr /\ r.error.msg = error.msg
         IN Same(QueryParser_getIterator(Join(AsTerms(expr.tokens))))

\* The parser failed at a '(' followed by a tag token, met inside an
\* operator.
C22_Witness ==
  /\ IsText /\ BareOpeners(expr.tokens) # {}
  /\ error.msg = "Unrecognizable operator after a left parenthesis '(': tag:j"
  /\ error.pos > 0

\* The parser returned the cursor of an and of the word diff and a term.
C22_WitnessTerm ==
  /\ IsText /\ error = NoError /\ op = "none"
  /\ LooseKeywords(expr.tokens) # {}
  /\ itr.kind = "and" /\ Len(itr.children) = 2

\* The list is strictly ascending.
Ascending(docs) == \A i \in 1 .. Len(docs) - 1 : docs[i] < docs[i + 1]

\* C23 as stated: a list that is not strictly ascending is rejected when
\* the sorted-vector cursor is constructed and is never iterated; the
\* empty list is accepted and its cursor is exhausted from the start.
C23_ConstructionValidatesOrder ==
  (expr.op = "vec" /\ query = <<>>) =>
    /\ ~Ascending(expr.docs) => aborted
    /\ (expr.docs = <<>> /\ op = "none") => (~aborted /\ ~valid(itr))

\* The slots of the children of the OR c that stand on the value of c.
OnValue(c) ==
  {i \in 1 .. Len(c.children) :
     valid(c.children[i]) /\ value(c.children[i]) = value(c)}

\* The cursor was built from an untagged or whose children are all tagged.
IsOrOfTagged ==
  /\ expr.op = "or" /\ expr.tag = ""
  /\ \A i \in 1 .. Len(expr.args) : expr.args[i].op \in Ops /\ expr.args[i].tag # ""

\* C24: on a valid OR, after any calls of next() and skipTo(), getTags()
\* holds the tags of every child standing on the value of the OR, each
\* once, wherever the child lies in the heap array, and of no other child.
C24_OrTagsOfChildrenOnValue ==
  (GotTagsOnValid /\ IsOrOfTagged) =>
    /\ Range(tags) = {itr.children[i].tag : i \in OnValue(itr)}
    /\ Len(tags) = Cardinality(OnValue(itr))

\* After a move, three children of an OR stand on its value, one of them
\* in the last slot, below the others, and a fourth one stands elsewhere.
C24_Witness ==
  /\ GotTagsOnValid /\ IsOrOfTagged /\ ~fresh
  /\ Len(itr.children) = MaxChildren + 2
  /\ Cardinality(OnValue(itr)) = MaxChildren + 1
  /\ Len(itr.children) \in OnValue(itr)
  /\ Len(tags) = MaxChildren + 1

\* The root cursor is an AND that no failed assertion has stopped.
OnAnd == itr.kind = "and" /\ ~aborted /\ error = NoError

\* C25: after construction and after every call, a valid AND has all its
\* children valid and standing on the value it reports, and an AND with an
\* exhausted child is not valid.
C25_AndChildrenAgree ==
  OnAnd =>
    /\ valid(itr) =>
         \A i \in 1 .. Len(itr.children) :
           valid(itr.children[i]) /\ value(itr.children[i]) = value(itr)
    /\ (\E i \in 1 .. Len(itr.children) : ~valid(itr.children[i])) => ~valid(itr)

\* An AND stands on an id it reached by skipTo, its children having
\* started on different ids.
C25_Witness ==
  /\ OnAnd /\ valid(itr) /\ op = "skipTo" /\ ret
  /\ Len(itr.children) >= 2
  /\ \E i \in 1 .. Len(expr.args) : \E j \in 1 .. Len(expr.args) :
       /\ expr.args[i].docs # <<>> /\ expr.args[j].docs # <<>>
       /\ expr.args[i].docs[1] # expr.args[j].docs[1]
  /\ value(itr) > 0

\* An AND became invalid by next() with a child exhausted and another
\* child still valid.
C25_WitnessExhausted ==
  /\ OnAnd /\ ~valid(itr) /\ op = "next" /\ prev # kInvalidDocId
  /\ \E i \in 1 .. Len(itr.children) : valid(itr.children[i])

\* The root cursor is an OR that no failed assertion has stopped.
OnOr == itr.kind = "or" /\ ~aborted /\ error = NoError

\* The cursors ch are in min-heap order on value(): no cursor stands on a
\* greater value than the two cursors below it (slots 2i + 1 and 2i + 2,
\* 0-based).
HeapOrdered(ch) ==
  \A i \in 1 .. Len(ch) : \A k \in {2 * i, 2 * i + 1} :
    k <= Len(ch) => value(ch[i]) <= value(ch[k])

\* C26: after construction and after every call, the children an OR
\* stores are in min-heap order on their current value, an exhausted child
\* counting as the sentinel, so that slot 0 holds the least value; and
\* next() from the value c leaves the OR on a value greater than c or
\* exhausted.
C26_OrHeapOrder ==
  OnOr =>
    /\ HeapOrdered(itr.children)
    /\ \A i \in 1 .. Len(itr.children) :
         value(itr.children[1]) <= value(itr.children[i])
    /\ (op = "next" /\ prev # kInvalidDocId) => (~valid(itr) \/ value(itr) > prev)

\* After next() dropped one exhausted child of MaxChildren + 2, the OR
\* stands on a value that only its slot 0 holds.
C26_Witness ==
  /\ OnOr /\ op = "next" /\ prev # kInvalidDocId /\ valid(itr)
  /\ Len(expr.args) = MaxChildren + 2
  /\ Len(itr.children) = MaxChildren + 1
  /\ \A i \in 2 .. Len(itr.children) : value(itr.children[1]) < value(itr.children[i])

\* The ids a leaf cursor has not passed yet.
Ahead(c) == {c.sortedDocIds[k] : k \in c.nextPos + 1 .. Len(c.sortedDocIds)}
\* The number of values the OR c over leaf cursors still has to yield, the
\* current one included: the ids that some child has not passed yet.
ToYield(c) ==
  Cardinality(UNION {Ahead(c.children[i]) : i \in 1 .. Len(c.children)})

\* The root cursor is an OR over leaf cursors.
OnOrOfLeaves ==
  OnOr /\ \A i \in 1 .. Len(itr.children) : itr.children[i].kind \in {"vec", "empty"}

\* C27 as stated: for an OR over leaf cursors, remainingDocs() is an upper
\* bound on the number of values the OR still has to yield, the current
\* one included, in every reachable state.
C27_Original == OnOrOfLeaves => remainingDocs(itr) >= ToYield(itr)

\* C27, amended: for an OR over leaf cursors, remainingDocs() is the
\* greatest remainingDocs() of its stored children when the OR is valid
\* and 0 when it is not, and it is a lower bound on the number of values
\* the OR still has to yield, the current one included.
C27_OrRemainingDocsLowerBound ==
  OnOrOfLeaves =>
    /\ remainingDocs(itr) <= ToYield(itr)
    /\ remainingDocs(itr) >= 0
    /\ ~valid(itr) => remainingDocs(itr) = 0
    /\ valid(itr) =>
         /\ \A i \in 1 .. Len(itr.children) :
              remainingDocs(itr.children[i]) <= remainingDocs(itr)
         /\ \E i \in 1 .. Len(itr.children) :
              remainingDocs(itr.children[i]) = remainingDocs(itr)

\* After next(), an OR of two children that still has more values to
\* yield than remainingDocs() says.
C27_Witness ==
  /\ OnOrOfLeaves /\ op = "next" /\ valid(itr)
  /\ Len(itr.children) = 2
  /\ remainingDocs(itr) < ToYield(itr)

\* C28 as stated: whatever next() and skipTo() calls were made on a
\* sorted-vector cursor, calls on the exhausted cursor included, its
\* position is at most the length of its list, so that the precondition of
\* VectorIterator::skipTo holds.
C28_PositionWithinList ==
  (itr.kind = "vec" /\ error = NoError) => itr.nextPos <= Len(itr.sortedDocIds)

\* C29: every call returns: iterateWith() ends on an exhausted cursor
\* having handed out finitely many ids, every next() on a valid cursor ends
\* on a greater id or on an exhausted cursor, and a caller that goes on
\* calling next() reaches an exhausted cursor, which stays exhausted.
C29_CallsReturnAndNextDrains ==
  /\ []((op = "iterateWith" /\ ~aborted) =>
          (~valid(itr) /\ Len(out) <= MaxDocId + 1))
  /\ [][(op' = "next" /\ valid(itr)) =>
          (~valid(itr') \/ value(itr') > value(itr))]_vars
  /\ <>[](~valid(itr))

\* next() on a DIFF of two terms standing on an id returned false: the
\* alignment loop has run and the cursor is exhausted.
C29_Witness ==
  /\ op = "next" /\ ~ret /\ ~aborted /\ prev # kInvalidDocId
  /\ itr.kind = "diff" /\ ~valid(itr)
  /\ Len(expr.args[1].docs) >= 2 /\ expr.args[2].docs # <<>>

\* The bottom frame of a stack is the ROOT frame and no other frame is.
RootAtBottomOnly(stack) ==
  /\ stack # <<>>
  /\ stack[1].op = "ROOT"
  /\ \A j \in 2 .. Len(stack) : stack[j].op # "ROOT"

\* C30: whatever the query text, each value the parser's stack takes is
\* non-empty with the ROOT frame at its bottom and nowhere else, so a ')'
\* that closes an operator frame leaves a parent frame to take the cursor;
\* and when the parser returns a cursor, the stack it ended on holds the
\* ROOT frame alone.
C30_RootFrameAtBottomOnly ==
  LET Stacks(s) ==
        /\ \A i \in 1 .. Len(s) : RootAtBottomOnly(s[i])
        /\ error = NoError => Len(s[Len(s)]) = 1
  IN Stacks(getIteratorStacks(query))

\* A query that was parsed into a cursor with operator frames three deep on
\* the stack on the way.
C30_Witness ==
  LET Stacks(s) ==
        /\ \E i \in 1 .. Len(s) : Len(s[i]) >= 4
        /\ Len(s[Len(s)]) = 1
  IN /\ query # <<>> /\ error = NoError /\ op = "none"
     /\ Stacks(getIteratorStacks(query))

============================================================================
